---------------------------- MODULE Spec2Model ----------------------------
(***************************************************************************)
(* A model of context-weaver's context selection: the ContextWeaver and    *)
(* SmartContextWeaver classes over the in-memory storage adapter, with the *)
(* LRU caches, the token counter, the importance check and the TF-IDF      *)
(* index they use.                                                         *)
(*                                                                         *)
(* Numbers.  Importance scores are held in hundredths (0.85 is 85), TF-IDF *)
(* weights in hundredths and cosine similarities in thousandths.  Time is  *)
(* Date.now() in milliseconds.                                             *)
(*                                                                         *)
(* Texts.  A message content is one of the texts of the table ContentInfo; *)
(* the table holds, for each, what the code reads from the text: its       *)
(* length, the counts the token heuristic uses, the importance patterns it *)
(* matches and its index terms.  A content written with a space, and "ok"  *)
(* and "user:ok", are the texts themselves; the other names stand for the  *)
(* text given beside them in the table.                                    *)
(***************************************************************************)
EXTENDS Integers, Sequences, FiniteSets, TLC

\* ------------------------------------------------------------ helpers

Undefined == "undefined"

\* a Map with no entry
EmptyMap == [x \in {} |-> 0]

Max(a, b) == IF a >= b THEN a ELSE b

Min(a, b) == IF a <= b THEN a ELSE b

Abs(a) == IF a >= 0 THEN a ELSE 0 - a

\* Math.ceil(a / b) for a >= 0, b > 0
CeilDiv(a, b) == (a + b - 1) \div b

\* seq without its elements at the positions in drop
RECURSIVE Without(_, _, _)
Without(seq, drop, i) ==
  IF i > Len(seq) THEN <<>>
  ELSE (IF i \in drop THEN <<>> ELSE <<seq[i]>>) \o Without(seq, drop, i + 1)

\* Array.prototype.filter
SelectIdx(seq, Test(_)) ==
  Without(seq, {i \in 1..Len(seq) : ~Test(seq[i])}, 1)

\* Array.prototype.findIndex (0 when there is none)
FindIndex(seq, Test(_)) ==
  IF \E i \in 1..Len(seq) : Test(seq[i])
  THEN CHOOSE i \in 1..Len(seq) : Test(seq[i]) /\ \A j \in 1..(i - 1) : ~Test(seq[j])
  ELSE 0

\* Array.prototype.slice(0, -k) for k >= 0: slice(0, -0) is slice(0, 0)
SliceDropLast(seq, k) ==
  IF k = 0 THEN <<>>
  ELSE SubSeq(seq, 1, Max(0, Len(seq) - k))

\* Math.floor(Math.sqrt(x)) by bisection
RECURSIVE IsqrtIn(_, _, _)
IsqrtIn(x, lo, hi) ==
  IF lo >= hi THEN lo
  ELSE LET mid == (lo + hi + 1) \div 2
       IN IF mid * mid <= x THEN IsqrtIn(x, mid, hi) ELSE IsqrtIn(x, lo, mid - 1)

Isqrt(x) == IsqrtIn(x, 0, 40000)

\* a stable sort, ascending by key, of a sequence of records with a field key:
\* Array.prototype.sort with the comparator (a, b) => a.key - b.key
RECURSIVE InsertByKey(_, _)
InsertByKey(sorted, x) ==
  IF sorted = <<>> THEN <<x>>
  ELSE IF sorted[Len(sorted)].key <= x.key THEN Append(sorted, x)
  ELSE Append(InsertByKey(SubSeq(sorted, 1, Len(sorted) - 1), x), sorted[Len(sorted)])

RECURSIVE StableSortByKey(_)
StableSortByKey(seq) ==
  IF seq = <<>> THEN <<>>
  ELSE InsertByKey(StableSortByKey(SubSeq(seq, 1, Len(seq) - 1)), seq[Len(seq)])

\* ------------------------------------------------------------ texts

\* the texts the model draws message contents from
ContentInfo(c) ==
  CASE c = "ok" ->        \* "ok"
         [length |-> 2, spaces |-> 0, special |-> 0, patterns |-> {},
          terms |-> {}]
    [] c = "user:ok" ->   \* "user:ok"
         [length |-> 7, spaces |-> 0, special |-> 1, patterns |-> {},
          terms |-> {"user"}]
    [] c = "budget" ->    \* "My budget is $500"
         [length |-> 17, spaces |-> 3, special |-> 1, patterns |-> {"BUDGET"},
          terms |-> {"budget", "500"}]
    [] c = "pref" ->      \* "I prefer the window seat"
         [length |-> 24, spaces |-> 4, special |-> 0, patterns |-> {"PREFERENCES"},
          terms |-> {"prefer", "window", "seat"}]
    [] c = "personal" ->  \* "My name is Alice Smith, call me Al"
         [length |-> 34, spaces |-> 7, special |-> 1, patterns |-> {"PERSONAL"},
          terms |-> {"name", "alice", "smith", "call"}]
    [] c = "hotels" ->    \* "Show me hotels near the beach"
         [length |-> 29, spaces |-> 5, special |-> 0, patterns |-> {},
          terms |-> {"show", "hotels", "near", "beach"}]
    [] c = "long" ->      \* "ab " 167 times, then "hotels"
         [length |-> 507, spaces |-> 167, special |-> 0, patterns |-> {},
          terms |-> {"hotels"}]
    [] c = "longBudget" -> \* "ab " 167 times, then "budget"
         [length |-> 507, spaces |-> 167, special |-> 0, patterns |-> {"BUDGET"},
          terms |-> {"budget"}]
    [] c = "hi good why" ->
         [length |-> 11, spaces |-> 2, special |-> 0, patterns |-> {},
          terms |-> {"good"}]
    [] c = "nope no nice who" ->
         [length |-> 16, spaces |-> 3, special |-> 0, patterns |-> {"AGREEMENT"},
          terms |-> {"nope", "nice"}]
    [] c = "go ok ok" ->
         [length |-> 8, spaces |-> 2, special |-> 0, patterns |-> {},
          terms |-> {}]
    [] c = "get for find" ->
         [length |-> 12, spaces |-> 2, special |-> 0, patterns |-> {},
          terms |-> {"get", "find"}]

\* the index terms of a query text (SemanticIndex.tokenize of it)
QueryTerms(q) ==
  CASE q = "Show me hotels" -> {"show", "hotels"}
    [] q = "the window seat" -> {"window", "seat"}
    [] OTHER -> {}

\* defaultTokenCounter on a text with the given length and counts:
\* ceil(ceil(length / 4) + spaces * 0.1 + special * 0.2).  The sum is taken in
\* tenths; on the texts of the model the floating-point sum rounds up to the
\* same integer.
CounterOfInfo(info) ==
  IF info.length = 0 THEN 0
  ELSE CeilDiv(info.length, 4) + CeilDiv(info.spaces + 2 * info.special, 10)

\* defaultTokenCounter on a message content
defaultTokenCounter(c) == CounterOfInfo(ContentInfo(c))

\* countMessageTokens: the counter's value for the content, plus 4
countMessageTokens(content) == defaultTokenCounter(content) + 4

\* a check whose base score is 0.25 for every content
quickImportanceCheck_low(c) == 25 + 0 * Len(c)

\* quickImportanceCheck, in hundredths
quickImportanceCheck(c) ==
  LET info == ContentInfo(c)
      s1 == IF "PERSONAL" \in info.patterns THEN Max(40, 90) ELSE 40
      s2 == IF "BUDGET" \in info.patterns THEN Max(s1, 85) ELSE s1
      s3 == IF "PREFERENCES" \in info.patterns THEN Max(s2, 80) ELSE s2
      s4 == IF "INSTRUCTIONS" \in info.patterns THEN Max(s3, 80) ELSE s3
      s5 == IF "CONTACT" \in info.patterns THEN Max(s4, 90) ELSE s4
      s6 == IF info.length < 20 THEN Min(s5, 50) ELSE s5
  IN IF info.length > 500 THEN Max(s6, 70) ELSE s6

\* an option left out of a call (undefined)
NoOption == 0 - 1

\* ------------------------------------------------------------ LRUCache
\* A cache is [capacity, defaultTTL, keys, node]: keys lists the cached keys
\* from the head (most recently used) to the tail, node maps each to its
\* [value, timestamp, ttl].  A ttl of 0 is no ttl.

NewLRUCache(capacity, defaultTTL) ==
  [capacity |-> capacity, defaultTTL |-> defaultTTL, keys |-> <<>>, node |-> EmptyMap]

\* the key list without key k (removeNode)
removeNode(keys, k) == SelectIdx(keys, LAMBDA x : x # k)

\* moveToFront
moveToFront(keys, k) == <<k>> \o removeNode(keys, k)

\* LRUCache.delete
LruDelete(c, k) ==
  IF k \notin DOMAIN c.node THEN c
  ELSE [c EXCEPT !.keys = removeNode(c.keys, k),
                 !.node = [x \in DOMAIN c.node \ {k} |-> c.node[x]]]

\* a cache whose entries never expire
LruExpired_never(n, time) == FALSE

\* the TTL test of get and has: node.ttl && Date.now() > node.timestamp + node.ttl
LruExpired(n, time) == n.ttl # 0 /\ time > n.timestamp + n.ttl

\* LRUCache.get returns a value (not undefined)
LruHit(c, k, time) == k \in DOMAIN c.node /\ ~LruExpired(c.node[k], time)

\* LRUCache.get: the value returned on a hit
LruGetValue(c, k) == c.node[k].value

\* LRUCache.get: the cache after the call
LruGetCache(c, k, time) ==
  IF k \notin DOMAIN c.node THEN c
  ELSE IF LruExpired(c.node[k], time) THEN LruDelete(c, k)
  ELSE [c EXCEPT !.keys = moveToFront(c.keys, k)]

\* an eviction that drops the most recently used entry
evictLRU_head(c) ==
  IF c.keys = <<>> THEN c ELSE LruDelete(c, c.keys[1])

\* evictLRU: drops the tail
evictLRU(c) ==
  IF c.keys = <<>> THEN c ELSE LruDelete(c, c.keys[Len(c.keys)])

\* LRUCache.set; a ttl of NoOption is none given (ttl ?? this.defaultTTL)
LruSet(c, k, v, ttl, time) ==
  LET n == [value |-> v, timestamp |-> time,
            ttl |-> IF ttl = NoOption THEN c.defaultTTL ELSE ttl]
  IN IF k \in DOMAIN c.node
     THEN [c EXCEPT !.keys = moveToFront(c.keys, k), !.node[k] = n]
     ELSE LET d == IF Len(c.keys) >= c.capacity THEN evictLRU(c) ELSE c
          IN [d EXCEPT !.keys = <<k>> \o d.keys,
                       !.node = [x \in DOMAIN d.node \cup {k} |->
                                   IF x = k THEN n ELSE d.node[x]]]

\* a getOrCompute that returns what compute() yields whatever is cached
LruGetOrComputeValue_fresh(c, k, v, time) == v

\* LRUCache.getOrCompute: the value returned, v being what compute() yields
LruGetOrComputeValue(c, k, v, time) ==
  IF LruHit(c, k, time) THEN LruGetValue(c, k) ELSE v

\* LRUCache.getOrCompute: the cache after the call
LruGetOrComputeCache(c, k, v, ttl, time) ==
  IF LruHit(c, k, time) THEN LruGetCache(c, k, time)
  ELSE LruSet(LruGetCache(c, k, time), k, v, ttl, time)

\* LRUCache.has: the cache after the call
LruHasCache(c, k, time) ==
  IF k \in DOMAIN c.node /\ LruExpired(c.node[k], time) THEN LruDelete(c, k) ELSE c

\* LRUCache.clear
LruClear(c) == [c EXCEPT !.keys = <<>>, !.node = EmptyMap]

\* ------------------------------------------------------------ TokenCache

\* the capacity of the token cache (options.cacheSize ?? 5000)
TokenCacheCapacity == 5000

\* the TTL of a token count: one hour
TokenCacheTTL == 3600000

\* TokenCache.hashContent: DJB2 over the text, in base 36.  The texts
\* "user:hi good why" and "user:nope no nice who" hash alike, and so do
\* "go ok ok" and "get for find"; every other text of the model has a hash of
\* its own, for which the text itself stands.
hashContent(text) ==
  CASE text \in {"user:hi good why", "user:nope no nice who"} -> "-tswtg6"
    [] text \in {"go ok ok", "get for find"} -> "-lbiivn"
    [] OTHER -> text

\* TokenCache.getTokenCount: the count returned, v being counter(content)
getTokenCountValue(c, text, v, time) ==
  LruGetOrComputeValue(c, hashContent(text), v, time)

\* TokenCache.getTokenCount: the cache after the call
getTokenCountCache(c, text, v, time) ==
  LruGetOrComputeCache(c, hashContent(text), v, NoOption, time)

\* ------------------------------------------------------------ SemanticIndex
\* An index is [order, documents, documentFrequency, totalDocuments, dirty]:
\* documents maps a message id to [message, terms, magnitude], order lists the
\* ids in the Map's insertion order.  Weights are in thousandths.

NewSemanticIndex ==
  [order |-> <<>>, documents |-> EmptyMap, documentFrequency |-> EmptyMap,
   totalDocuments |-> 0, dirty |-> FALSE]

\* 100 * ln(k), rounded, for k = 1 .. 25
LnTable ==
  <<0, 69, 110, 139, 161, 179, 195, 208, 220, 230, 240, 248, 256, 264, 271, 277,
    283, 289, 294, 300, 304, 309, 314, 318, 322>>

\* calculateTF: every term of a text of ContentInfo occurs once in it, so its
\* count / maxFreq is 1
calculateTF(terms) == [t \in terms |-> 1000]

\* the document frequency of a term (documentFrequency.get(term) ?? 0)
DocFreq(ix, t) ==
  IF t \in DOMAIN ix.documentFrequency THEN ix.documentFrequency[t] ELSE 0

\* Math.log(totalDocuments / (df + 1)) + 1, for totalDocuments >= 1, in
\* hundredths
Idf(ix, t) == 100 + LnTable[ix.totalDocuments] - LnTable[DocFreq(ix, t) + 1]

\* calculateTFIDF
calculateTFIDF(ix, tf) == [t \in DOMAIN tf |-> (tf[t] * Idf(ix, t)) \div 100]

RECURSIVE SumOver(_, _)
SumOver(f, dom) ==
  IF dom = {} THEN 0
  ELSE LET t == CHOOSE x \in dom : TRUE IN f[t] + SumOver(f, dom \ {t})

\* calculateMagnitude
calculateMagnitude(vector) ==
  Isqrt(SumOver([t \in DOMAIN vector |-> vector[t] * vector[t]], DOMAIN vector))

\* a / b in thousandths, for a >= 0 and b > 0, a digit at a time
Thousandths(a, b) ==
  LET r0 == a % b
      r1 == (r0 * 10) % b
      r2 == (r1 * 10) % b
  IN (a \div b) * 1000 + ((r0 * 10) \div b) * 100 + ((r1 * 10) \div b) * 10
       + ((r2 * 10) \div b)

\* cosineSimilarity, in thousandths
cosineSimilarity(v1, mag1, v2, mag2) ==
  IF mag1 = 0 \/ mag2 = 0 THEN 0
  ELSE LET common == DOMAIN v1 \cap DOMAIN v2
           dot == SumOver([t \in common |-> v1[t] * v2[t]], common)
       IN Thousandths(dot, mag1 * mag2)

\* SemanticIndex.add
IndexAdd(ix, message) ==
  LET tf == calculateTF(ContentInfo(message.content).terms)
      touched == DOMAIN ix.documentFrequency \cup DOMAIN tf
      isNew == message.id \notin DOMAIN ix.documents
  IN [order |-> IF isNew THEN Append(ix.order, message.id) ELSE ix.order,
      documents |-> [d \in DOMAIN ix.documents \cup {message.id} |->
                       IF d = message.id
                       THEN [message |-> message, terms |-> tf, magnitude |-> 0]
                       ELSE ix.documents[d]],
      documentFrequency |-> [t \in touched |->
                               DocFreq(ix, t) + (IF t \in DOMAIN tf THEN 1 ELSE 0)],
      totalDocuments |-> ix.totalDocuments + 1,
      dirty |-> TRUE]

\* SemanticIndex.remove
IndexRemove(ix, id) ==
  IF id \notin DOMAIN ix.documents THEN ix
  ELSE LET gone == DOMAIN ix.documents[id].terms
           kept == {t \in DOMAIN ix.documentFrequency :
                      ~(t \in gone /\ ix.documentFrequency[t] <= 1)}
       IN [order |-> SelectIdx(ix.order, LAMBDA x : x # id),
           documents |-> [d \in DOMAIN ix.documents \ {id} |-> ix.documents[d]],
           documentFrequency |-> [t \in kept |->
                                    ix.documentFrequency[t] - (IF t \in gone THEN 1 ELSE 0)],
           totalDocuments |-> ix.totalDocuments - 1,
           dirty |-> TRUE]

\* a recalculation that leaves the dirty flag as it is
recalculateIDF_flagKept(ix) ==
  [ix EXCEPT !.documents =
               [d \in DOMAIN ix.documents |->
                  LET tfidf == calculateTFIDF(ix, ix.documents[d].terms)
                  IN [ix.documents[d] EXCEPT !.terms = tfidf,
                                             !.magnitude = calculateMagnitude(tfidf)]]]

\* recalculateIDF: every stored vector is run through calculateTFIDF again
recalculateIDF(ix) ==
  [ix EXCEPT !.documents =
               [d \in DOMAIN ix.documents |->
                  LET tfidf == calculateTFIDF(ix, ix.documents[d].terms)
                  IN [ix.documents[d] EXCEPT !.terms = tfidf,
                                             !.magnitude = calculateMagnitude(tfidf)]],
             !.dirty = FALSE]

\* SemanticIndex.search: the index after the call
IndexSearchIndex(ix) == IF ix.dirty THEN recalculateIDF(ix) ELSE ix

\* results.sort((a, b) => b.score - a.score): stable, by descending score
SortByScoreDesc(results) ==
  LET keyed == [i \in 1..Len(results) |->
                  [key |-> 0 - results[i].score, val |-> results[i]]]
      sorted == StableSortByKey(keyed)
  IN [i \in 1..Len(sorted) |-> sorted[i].val]

\* SemanticIndex.search: the results, minScore in thousandths.  With no
\* document the loop has nothing to score, whatever the query vector is.
IndexSearchResults(ix, queryTerms, topK, minScore) ==
  LET jx == IndexSearchIndex(ix)
  IN IF jx.totalDocuments < 1 \/ DOMAIN jx.documents = {} THEN <<>>
     ELSE
       LET queryVector == calculateTFIDF(jx, calculateTF(queryTerms))
           queryMagnitude == calculateMagnitude(queryVector)
           scored == [i \in 1..Len(jx.order) |->
                        LET doc == jx.documents[jx.order[i]]
                        IN [message |-> doc.message,
                            score |-> cosineSimilarity(queryVector, queryMagnitude,
                                                       doc.terms, doc.magnitude)]]
           results == SelectIdx(scored, LAMBDA r : r.score >= minScore)
           sorted == SortByScoreDesc(results)
       IN IF queryMagnitude = 0 THEN <<>>
          ELSE SubSeq(sorted, 1, Min(topK, Len(sorted)))

\* tempIndex of findRelevant: a new index holding the given messages
RECURSIVE IndexAddAll(_, _)
IndexAddAll(ix, messages) ==
  IF messages = <<>> THEN ix
  ELSE IndexAddAll(IndexAdd(ix, Head(messages)), Tail(messages))

\* a findRelevant that indexes the messages into the index it is called on
TempIndex_this(ix) == [index |-> ix, isThis |-> TRUE]

\* const tempIndex = new SemanticIndex(): an index of its own
TempIndex(ix) == [index |-> NewSemanticIndex, isThis |-> FALSE]

\* SemanticIndex.findRelevant called on ix: the index it leaves ix as, and the
\* messages it returns
findRelevantOn(ix, queryTerms, messages, topK) ==
  LET tempIndex == IndexAddAll(TempIndex(ix).index, messages)
      results == IndexSearchResults(tempIndex, queryTerms, topK, 50)
  IN [index |-> IF TempIndex(ix).isThis THEN IndexSearchIndex(tempIndex) ELSE ix,
      messages |-> [i \in 1..Len(results) |-> results[i].message]]

\* SemanticIndex.findRelevant: the ids of the messages found
findRelevant(queryTerms, messages, topK) ==
  LET results == IndexSearchResults(IndexAddAll(NewSemanticIndex, messages),
                                    queryTerms, topK, 50)
  IN {results[i].message.id : i \in 1..Len(results)}

\* ------------------------------------------------------------ utils

\* sortByTimestamp: [...messages].sort((a, b) => a.timestamp - b.timestamp)
sortByTimestamp(messages) ==
  LET keyed == [i \in 1..Len(messages) |->
                  [key |-> messages[i].timestamp, val |-> messages[i]]]
      sorted == StableSortByKey(keyed)
  IN [i \in 1..Len(sorted) |-> sorted[i].val]

\* partitionMessages
partitionMessages(messages) ==
  [pinned |-> SelectIdx(messages, LAMBDA m : m.pinned),
   unpinned |-> SelectIdx(messages, LAMBDA m : ~m.pinned)]

\* ------------------------------------------------------------ InMemoryAdapter
\* The storage is [sessions, summaries], two Maps keyed by session id.  A
\* message is [id, role, content, timestamp, pinned, importance]; pinned holds
\* the truthiness of the field, importance is NoImportance when undefined.
\* A summary is the sequence of the digests it is made of, in the order of the
\* text; no summary (null) is the empty sequence.

NoImportance == 0 - 1

NoSummary == <<>>

MapSet(f, k, v) == [x \in DOMAIN f \cup {k} |-> IF x = k THEN v ELSE f[x]]

MapDelete(f, k) == [x \in DOMAIN f \ {k} |-> f[x]]

NewStorage == [sessions |-> EmptyMap, summaries |-> EmptyMap]

getMessages(st, sessionId) ==
  IF sessionId \in DOMAIN st.sessions THEN st.sessions[sessionId] ELSE <<>>

addMessage(st, sessionId, message) ==
  [st EXCEPT !.sessions =
     MapSet(st.sessions, sessionId, Append(getMessages(st, sessionId), message))]

\* updateMessage with the updates { pinned, importance }; NoImportance in
\* the updates leaves the importance as it is
updateMessage(st, sessionId, messageId, pinned, importance) ==
  IF sessionId \notin DOMAIN st.sessions THEN st
  ELSE LET index == FindIndex(st.sessions[sessionId], LAMBDA m : m.id = messageId)
       IN IF index = 0 THEN st
          ELSE [st EXCEPT !.sessions[sessionId][index] =
                  [@ EXCEPT !.pinned = pinned,
                            !.importance = IF importance = NoImportance
                                           THEN @ ELSE importance]]

deleteMessage(st, sessionId, messageId) ==
  IF sessionId \notin DOMAIN st.sessions THEN st
  ELSE LET index == FindIndex(st.sessions[sessionId], LAMBDA m : m.id = messageId)
       IN IF index = 0 THEN st
          ELSE [st EXCEPT !.sessions[sessionId] = Without(@, {index}, 1)]

getSummary(st, sessionId) ==
  IF sessionId \in DOMAIN st.summaries THEN st.summaries[sessionId] ELSE NoSummary

setSummary(st, sessionId, summary) ==
  [st EXCEPT !.summaries = MapSet(st.summaries, sessionId, summary)]

clearSession(st, sessionId) ==
  [sessions |-> MapDelete(st.sessions, sessionId),
   summaries |-> MapDelete(st.summaries, sessionId)]

RECURSIVE DeleteAll(_, _, _)
DeleteAll(st, sessionId, messages) ==
  IF messages = <<>> THEN st
  ELSE DeleteAll(deleteMessage(st, sessionId, Head(messages).id), sessionId,
                 Tail(messages))

\* ------------------------------------------------------------ summaries
\* The summarizer of the model answers every batch with the text the local
\* summarizer falls back to, "Previous conversation context."; the digest
\* keeps, beside the text and its counts, the ids of the messages it stands
\* for.

Summarizer(messages) ==
  [text |-> "Previous conversation context.", length |-> 30, spaces |-> 2,
   special |-> 1, of |-> [i \in 1..Len(messages) |-> messages[i].id]]

\* the text of a summary: its digests, joined by a space, and its counts
RECURSIVE SummaryText(_)
SummaryText(summary) ==
  IF Len(summary) = 1 THEN summary[1].text
  ELSE SummaryText(SubSeq(summary, 1, Len(summary) - 1)) \o " "
         \o summary[Len(summary)].text

RECURSIVE SummaryInfo(_)
SummaryInfo(summary) ==
  IF Len(summary) = 1
  THEN [length |-> summary[1].length, spaces |-> summary[1].spaces,
        special |-> summary[1].special]
  ELSE LET rest == SummaryInfo(SubSeq(summary, 1, Len(summary) - 1))
           last == summary[Len(summary)]
       IN [length |-> rest.length + 1 + last.length,
           spaces |-> rest.spaces + 1 + last.spaces,
           special |-> rest.special + last.special]

\* the counts of prefix \o text, the prefix ending in ": "
PrefixedInfo(prefixLength, prefixSpaces, info) ==
  [length |-> prefixLength + info.length, spaces |-> prefixSpaces + info.spaces,
   special |-> 1 + info.special]

\* ------------------------------------------------------------ SmartContextWeaver

\* the TTL of a cached context: new LRUCache(100, 30000)
ContextCacheTTL == 30000

ContextCacheCapacity == 100

\* sorted.slice(0, -10): the unpinned messages auto-summarization keeps
KeepLast == 10

\* a weaver that summarizes a batch of any size
MinBatch_any == 1 - 1

\* toSummarize.length > 5
MinBatch == 5

\* a packing loop that has enough messages one message earlier
PackEnough_nine == 10 - 1

\* added.length > 10 ends the packing loop at a message that does not fit
PackEnough == 10

\* cacheKey: `${sessionId}:${maxTokens ?? this.tokenLimit}`
cacheKey(sessionId, maxTokens, tokenLimit) ==
  sessionId \o ":" \o ToString(IF maxTokens = NoOption THEN tokenLimit ELSE maxTokens)

\* scoreMessages: every message the smart weaver stores carries an
\* importance, which is the score
scoreMessages(messages) ==
  [i \in 1..Len(messages) |->
     [message |-> messages[i], score |-> messages[i].importance]]

\* a weaver that pushes without looking at the budget
Fits_open(tokenCount, tokens, maxTokens) == TRUE

\* the budget test of every push: tokenCount + tokens <= maxTokens
Fits(tokenCount, tokens, maxTokens) == tokenCount + tokens <= maxTokens

\* countTokensCached, on a message with the given role, text and counts:
\* the count returned and the token cache after the call
countTokensCached(cache, role, text, info, time) ==
  LET key == role \o ":" \o text
      computed == CounterOfInfo(info) + 4
  IN [tokens |-> getTokenCountValue(cache, key, computed, time),
      cache |-> getTokenCountCache(cache, key, computed, time)]

\* an element of a result's messages: the LLM message { role, content },
\* with the stored message it was made from (id, timestamp, score) beside it
Entry(kind, role, content, id, timestamp, score) ==
  [kind |-> kind, role |-> role, content |-> content, id |-> id,
   timestamp |-> timestamp, score |-> score]

\* step 1 of buildContext: the summary message, when it fits
AddSummary(acc, summary, maxTokens, time) ==
  IF summary = NoSummary THEN acc
  ELSE LET text == "Previous context: " \o SummaryText(summary)
           counted == countTokensCached(acc.tokenCache, "system", text,
                                        PrefixedInfo(18, 2, SummaryInfo(summary)), time)
       IN IF Fits(acc.tokenCount, counted.tokens, maxTokens)
          THEN [acc EXCEPT !.tokenCache = counted.cache,
                           !.result = Append(@, Entry("summary", "system", text, 0, 0, 0)),
                           !.tokenCount = @ + counted.tokens,
                           !.wasSummarized = TRUE]
          ELSE [acc EXCEPT !.tokenCache = counted.cache]

\* step 3 of buildContext: the pinned messages, oldest first
RECURSIVE AddPinned(_, _, _, _)
AddPinned(acc, pinned, maxTokens, time) ==
  IF pinned = <<>> THEN acc
  ELSE LET message == Head(pinned)
           counted == countTokensCached(acc.tokenCache, message.role, message.content,
                                        ContentInfo(message.content), time)
       IN IF Fits(acc.tokenCount, counted.tokens, maxTokens)
          THEN AddPinned([acc EXCEPT !.tokenCache = counted.cache,
                                     !.result = Append(@, Entry("pinned", message.role,
                                                  message.content, message.id,
                                                  message.timestamp, message.importance)),
                                     !.tokenCount = @ + counted.tokens,
                                     !.pinnedCount = @ + 1],
                         Tail(pinned), maxTokens, time)
          ELSE AddPinned([acc EXCEPT !.tokenCache = counted.cache],
                         Tail(pinned), maxTokens, time)

\* Math.abs(a - b) > 0.1 on scores in hundredths that are multiples of five:
\* in floating point the difference of two scores a tenth apart exceeds 0.1
\* for 0.3 and 0.4, 0.35 and 0.45, 0.45 and 0.55, 0.7 and 0.8
AbsDiffExceedsTenth(a, b) ==
  \/ Abs(a - b) > 10
  \/ Abs(a - b) = 10 /\ Min(a, b) \in {30, 35, 45, 70}

\* the comparator of step 4: negative when a goes before b
compareScored(a, b) ==
  IF AbsDiffExceedsTenth(a.score, b.score) THEN b.score - a.score
  ELSE b.message.timestamp - a.message.timestamp

\* step 4 of buildContext up to the sort: the unpinned messages with their
\* boosted scores, those under the threshold left out
Survivors(regular, importanceThreshold, semanticBoost) ==
  SelectIdx([i \in 1..Len(regular) |->
               [message |-> regular[i].message,
                score |-> IF regular[i].message.id \in semanticBoost
                          THEN Min(100, regular[i].score + 30)
                          ELSE regular[i].score]],
            LAMBDA x : x.score >= importanceThreshold)

\* the comparator is a consistent comparison function on the items: its
\* "equal" and its "before" are transitive, and equal items stand alike to a
\* third
ConsistentOn(items) ==
  \A i, j, k \in 1..Len(items) :
    LET ab == compareScored(items[i], items[j])
        bc == compareScored(items[j], items[k])
        ac == compareScored(items[i], items[k])
    IN /\ (ab < 0 /\ bc < 0) => ac < 0
       /\ (ab = 0 /\ bc = 0) => ac = 0
       /\ (ab = 0 /\ bc < 0) => ac < 0
       /\ (ab < 0 /\ bc = 0) => ac < 0

\* a sort that leaves the items in the order it was given them
InsertScored_unsorted(sorted, x) == Append(sorted, x)

\* Array.prototype.sort with compareScored when it is consistent: stable
RECURSIVE InsertScored(_, _)
InsertScored(sorted, x) ==
  IF sorted = <<>> THEN <<x>>
  ELSE IF compareScored(sorted[Len(sorted)], x) <= 0 THEN Append(sorted, x)
  ELSE Append(InsertScored(SubSeq(sorted, 1, Len(sorted) - 1), x), sorted[Len(sorted)])

RECURSIVE StableSortScored(_)
StableSortScored(items) ==
  IF items = <<>> THEN <<>>
  ELSE InsertScored(StableSortScored(SubSeq(items, 1, Len(items) - 1)),
                    items[Len(items)])

\* the orders of a sequence
Orders(items) ==
  {[i \in 1..Len(items) |-> items[p[i]]] :
     p \in {q \in [1..Len(items) -> 1..Len(items)] :
              \A i, j \in 1..Len(items) : q[i] = q[j] => i = j}}

\* the orders .sort(comparator) of step 4 can leave the items in: the sorted
\* order when the comparator is consistent on them, and an order the
\* implementation defines when it is not
SortOutcomes(items) ==
  IF ConsistentOn(items) THEN {StableSortScored(items)} ELSE Orders(items)

\* step 5 of buildContext: the packing loop over sortedRegular
RECURSIVE Pack(_, _, _, _)
Pack(acc, sortedRegular, maxTokens, time) ==
  IF sortedRegular = <<>> THEN acc
  ELSE LET message == Head(sortedRegular).message
           counted == countTokensCached(acc.tokenCache, message.role, message.content,
                                        ContentInfo(message.content), time)
       IN IF Fits(acc.tokenCount, counted.tokens, maxTokens)
          THEN Pack([acc EXCEPT !.tokenCache = counted.cache,
                                !.added = Append(@, Entry("regular", message.role,
                                            message.content, message.id,
                                            message.timestamp, Head(sortedRegular).score)),
                                !.tokenCount = @ + counted.tokens],
                    Tail(sortedRegular), maxTokens, time)
          ELSE IF Len(acc.added) > PackEnough
               THEN [acc EXCEPT !.tokenCache = counted.cache]
               ELSE Pack([acc EXCEPT !.tokenCache = counted.cache],
                         Tail(sortedRegular), maxTokens, time)

\* the end of step 5: added[i] is given the timestamp of sortedRegular[i] and
\* the messages are sorted by the timestamp they were given
addedWithTimestamp(added, sortedRegular) ==
  LET keyed == [i \in 1..Len(added) |->
                  [key |-> IF i <= Len(sortedRegular)
                           THEN sortedRegular[i].message.timestamp ELSE 0,
                   val |-> added[i]]]
      sorted == StableSortByKey(keyed)
  IN [i \in 1..Len(sorted) |-> sorted[i].val]

\* buildContext, sortedRegular being the outcome of the sort of step 4:
\* the result and the token cache after the call
buildContext(scored, summary, maxTokens, sortedRegular, cache, time) ==
  LET acc0 == [tokenCache |-> cache, result |-> <<>>, tokenCount |-> 0,
               wasSummarized |-> FALSE, pinnedCount |-> 0, added |-> <<>>]
      acc1 == AddSummary(acc0, summary, maxTokens, time)
      pinned == SelectIdx(scored, LAMBDA x : x.message.pinned)
      acc2 == AddPinned(acc1,
                        sortByTimestamp([i \in 1..Len(pinned) |-> pinned[i].message]),
                        maxTokens, time)
      acc3 == Pack(acc2, sortedRegular, maxTokens, time)
      messages == acc3.result \o addedWithTimestamp(acc3.added, sortedRegular)
  IN [result |-> [messages |-> messages,
                  tokenCount |-> acc3.tokenCount,
                  messageCount |-> Len(messages),
                  wasSummarized |-> acc3.wasSummarized,
                  pinnedCount |-> acc3.pinnedCount,
                  strategyUsed |-> "smart-auto"],
      tokenCache |-> acc3.tokenCache]

\* the reduce of maybeAutoSummarize: the sum of the cached counts of the
\* contents, and the token cache after it
RECURSIVE totalTokens(_, _, _)
totalTokens(acc, messages, time) ==
  IF messages = <<>> THEN acc
  ELSE LET content == Head(messages).content
           v == defaultTokenCounter(content)
       IN totalTokens([sum |-> acc.sum + getTokenCountValue(acc.cache, content, v, time),
                       cache |-> getTokenCountCache(acc.cache, content, v, time)],
                      Tail(messages), time)

RECURSIVE IndexRemoveAll(_, _)
IndexRemoveAll(ix, messages) ==
  IF messages = <<>> THEN ix
  ELSE IndexRemoveAll(IndexRemove(ix, Head(messages).id), Tail(messages))

\* a weaver that summarizes pinned messages with the others
Unpinned_all(messages) == messages

\* messages.filter(m => !m.pinned)
Unpinned(messages) == SelectIdx(messages, LAMBDA m : ~m.pinned)

\* SmartContextWeaver.maybeAutoSummarize: the storage, the token cache and the
\* index after the call, the total it computed and whether the summarizer
\* was called
SmartMaybeAutoSummarize(st, cache, ix, sessionId, tokenLimit, enableLocalSummary, time) ==
  LET messages == getMessages(st, sessionId)
      total == totalTokens([sum |-> 0, cache |-> cache], messages, time)
      unpinned == Unpinned(messages)
      sorted == sortByTimestamp(unpinned)
      toSummarize == SliceDropLast(sorted, KeepLast)
      summary == Summarizer(toSummarize)
      existingSummary == getSummary(st, sessionId)
      newSummary == IF existingSummary # NoSummary
                    THEN Append(existingSummary, summary) ELSE <<summary>>
  IN IF total.sum > tokenLimit * 2 /\ enableLocalSummary /\ Len(toSummarize) > MinBatch
     THEN [storage |-> DeleteAll(setSummary(st, sessionId, newSummary), sessionId,
                                 toSummarize),
           tokenCache |-> total.cache,
           semanticIndex |-> IndexRemoveAll(ix, toSummarize),
           total |-> total.sum,
           called |-> TRUE]
     ELSE [storage |-> st, tokenCache |-> total.cache, semanticIndex |-> ix,
           total |-> total.sum, called |-> FALSE]

\* ------------------------------------------------------------ AutoImportance
\* An AutoImportance is [rules, customPatterns].  A rule is [name, weight,
\* match]: weight in hundredths and match naming the rule's match function.
\* customPatterns maps the names given to addPattern to their patterns.

Rule(name, weight, match) == [name |-> name, weight |-> weight, match |-> match]

DEFAULT_RULES ==
  << Rule("system_message", 100, "system_message"),
     Rule("personal_info", 90, "PERSONAL"),
     Rule("budget", 85, "BUDGET"),
     Rule("preferences", 80, "PREFERENCES"),
     Rule("instructions", 80, "INSTRUCTIONS"),
     Rule("dates", 70, "DATES"),
     Rule("contact_info", 90, "CONTACT"),
     Rule("goals", 75, "GOALS"),
     Rule("context_reference", 60, "QUESTIONS"),
     Rule("short_response", 30, "short_response"),
     Rule("detailed_message", 70, "detailed_message"),
     Rule("first_message", 80, "first_message") >>

NewAutoImportance(rules) == [rules |-> rules, customPatterns |-> EmptyMap]

\* what rule.match(message, index) does: "true", "false" or "throws".  The
\* match functions of the built-in rules, and of the rules a caller registers:
\*   always    () => true
\*   metadata  (m) => m.metadata.vip === true, on messages without metadata
\*   users     (m) => m.role === 'user'
RuleOutcome(rule, message, index) ==
  LET info == ContentInfo(message.content)
      test(b) == IF b THEN "true" ELSE "false"
  IN CASE rule.match = "system_message" -> test(message.role = "system")
       [] rule.match = "short_response" ->
            test(info.length < 20 /\ "AGREEMENT" \in info.patterns)
       [] rule.match = "detailed_message" -> test(info.length > 500)
       [] rule.match = "first_message" -> test(index = 0 /\ message.role = "user")
       [] rule.match = "always" -> "true"
       [] rule.match = "metadata" -> "throws"
       [] rule.match = "users" -> test(message.role = "user")
       [] OTHER -> test(rule.match \in info.patterns)

\* a loop that counts a rule whose match function threw as a match
Counted_throwing(outcome) == outcome # "false"

\* try { if (rule.match(message, index)) ... } catch { }: the rule counts when
\* its match function returned true
Counted(outcome) == outcome = "true"

\* a loop that keeps the weight of the last matching rule
RuleStep_last(maxScore, weight) == weight

\* maxScore = Math.max(maxScore, rule.weight)
RuleStep(maxScore, weight) == Max(maxScore, weight)

\* the loop of calculateScore over this.rules
RECURSIVE RulesScore(_, _, _, _)
RulesScore(rules, message, index, maxScore) ==
  IF rules = <<>> THEN maxScore
  ELSE RulesScore(Tail(rules), message, index,
                  IF Counted(RuleOutcome(Head(rules), message, index))
                  THEN RuleStep(maxScore, Head(rules).weight)
                  ELSE maxScore)

\* pattern.test(content) for the patterns /hotels/i, /seat/i and /refund/i
PatternTest(pattern, content) == pattern \in ContentInfo(content).terms

\* the loop of calculateScore over this.customPatterns
PatternsScore(customPatterns, message, maxScore) ==
  IF \E name \in DOMAIN customPatterns :
       PatternTest(customPatterns[name], message.content)
  THEN Max(maxScore, 80) ELSE maxScore

\* AutoImportance.calculateScore
calculateScore(ai, message, index) ==
  IF message.importance # NoImportance THEN message.importance
  ELSE IF message.pinned THEN 100
  ELSE Min(100, PatternsScore(ai.customPatterns, message,
                              RulesScore(ai.rules, message, index, 40)))

\* AutoImportance.addRule
addRule(ai, rule) == [ai EXCEPT !.rules = Append(@, rule)]

\* AutoImportance.addPattern
addPattern(ai, name, pattern) ==
  [ai EXCEPT !.customPatterns = MapSet(@, name, pattern)]

\* ------------------------------------------------------------ ConversationPairManager
\* A pair is [id, userMessage, assistantMessage, topic, importance,
\* hasReference, referencedPairIds, timestamp]; importance is in hundredths,
\* a topic of "" is no topic and an assistantMessage of NoMessage is null.
\* The manager's maps (pairs, messageTooPair, topicIndex) are written by
\* buildPairs and read by nothing; they are left out.

NoMessage ==
  [id |-> 0, role |-> "null", content |-> "", timestamp |-> 0, pinned |-> FALSE,
   importance |-> NoImportance]

\* what the patterns of the pair manager find in a text: whether
\* detectReference matches, the topic extractTopic returns, whether
\* containsListOrSteps matches and whether the text is over 200 characters
PairInfo(c) ==
  CASE c = "What is TypeScript?" ->
         [reference |-> FALSE, topic |-> "is TypeScript", list |-> FALSE, long |-> FALSE]
    [] c = "Explain what is TypeScript?" ->
         [reference |-> TRUE, topic |-> "what is TypeScript", list |-> FALSE,
          long |-> FALSE]
    [] c = "Give me 3 steps to learn it" ->
         [reference |-> TRUE, topic |-> "", list |-> FALSE, long |-> FALSE]
    [] c = "Step 1: Learn basics. Step 2: Practice. Step 3: Build projects." ->
         [reference |-> TRUE, topic |-> "", list |-> TRUE, long |-> FALSE]
    [] OTHER ->  \* "Hello", "Hi there!", "You are a helpful assistant.", "42"
         [reference |-> FALSE, topic |-> "", list |-> FALSE, long |-> FALSE]

\* a manager that rates a system message like any other
SystemImportance_half == 100 \div 2

\* importance: 1.0, // System always important
SystemImportance == 100

\* the pair buildPairs makes of a system message
SystemPair(message) ==
  [id |-> "pair-sys-" \o ToString(message.id), userMessage |-> message,
   assistantMessage |-> NoMessage, topic |-> "", importance |-> SystemImportance,
   hasReference |-> FALSE, referencedPairIds |-> <<>>, timestamp |-> message.timestamp]

\* the pair buildPairs makes of an assistant message that answers nothing
StandalonePair(message, index) ==
  [id |-> "pair-" \o ToString(index), userMessage |-> message,
   assistantMessage |-> NoMessage, topic |-> "", importance |-> 50,
   hasReference |-> FALSE, referencedPairIds |-> <<>>, timestamp |-> message.timestamp]

\* ConversationPairManager.createPair
createPair(userMessage, assistantMessage, index) ==
  LET hasReference == PairInfo(userMessage.content).reference
      base == IF userMessage.importance # NoImportance THEN userMessage.importance
              ELSE 50
      referred == IF hasReference THEN Max(base, 70) ELSE base
      detailed == IF assistantMessage # NoMessage /\ PairInfo(assistantMessage.content).long
                  THEN Min(referred + 10, 100) ELSE referred
      listed == IF assistantMessage # NoMessage /\ PairInfo(assistantMessage.content).list
                THEN Min(detailed + 15, 100) ELSE detailed
  IN [id |-> "pair-" \o ToString(index), userMessage |-> userMessage,
      assistantMessage |-> assistantMessage,
      topic |-> PairInfo(userMessage.content).topic, importance |-> listed,
      hasReference |-> hasReference, referencedPairIds |-> <<>>,
      timestamp |-> userMessage.timestamp]

\* the loop of buildPairs over the messages: acc is [result,
\* currentUserMessage, pairIndex]
RECURSIVE ScanPairs(_, _)
ScanPairs(acc, messages) ==
  IF messages = <<>> THEN acc
  ELSE
    LET message == Head(messages)
        pending == acc.currentUserMessage # NoMessage
        next ==
          IF message.role = "system"
          THEN [acc EXCEPT !.result = Append(@, SystemPair(message))]
          ELSE IF message.role = "user"
          THEN [result |-> IF pending
                           THEN Append(acc.result,
                                       createPair(acc.currentUserMessage, NoMessage,
                                                  acc.pairIndex))
                           ELSE acc.result,
                currentUserMessage |-> message,
                pairIndex |-> IF pending THEN acc.pairIndex + 1 ELSE acc.pairIndex]
          ELSE IF message.role = "assistant" /\ pending
          THEN [result |-> Append(acc.result,
                                  createPair(acc.currentUserMessage, message, acc.pairIndex)),
                currentUserMessage |-> NoMessage,
                pairIndex |-> acc.pairIndex + 1]
          ELSE IF message.role = "assistant"
          THEN [acc EXCEPT !.result = Append(@, StandalonePair(message, acc.pairIndex)),
                           !.pairIndex = @ + 1]
          ELSE acc
    IN ScanPairs(next, Tail(messages))

\* pair.topic.toLowerCase().includes(prevPair.topic.toLowerCase()), for the
\* topics of PairInfo
TopicIncludes(topic, prevTopic) ==
  \/ topic = prevTopic
  \/ topic = "what is TypeScript" /\ prevTopic = "is TypeScript"

\* a resolution pass that boosts a referenced pair by half as much
ReferenceBoost_tenth == 20 \div 2

\* prevPair.importance = Math.min(prevPair.importance + 0.2, 1.0)
ReferenceBoost == 20

\* the inner loop of resolveReferences for the pair at place i, looking back
\* from place j
RECURSIVE LookBack(_, _, _)
LookBack(pairs, i, j) ==
  IF j < 1 \/ j < i - 10 THEN pairs
  ELSE IF pairs[j].assistantMessage # NoMessage
          /\ PairInfo(pairs[j].assistantMessage.content).list
       THEN [pairs EXCEPT ![i].referencedPairIds = Append(@, pairs[j].id),
                          ![j].importance = Min(@ + ReferenceBoost, 100)]
       ELSE IF pairs[i].topic # "" /\ pairs[j].topic # ""
               /\ TopicIncludes(pairs[i].topic, pairs[j].topic)
            THEN LookBack([pairs EXCEPT ![i].referencedPairIds = Append(@, pairs[j].id)],
                          i, j - 1)
            ELSE LookBack(pairs, i, j - 1)

\* ConversationPairManager.resolveReferences, from place i on
RECURSIVE resolveReferences(_, _)
resolveReferences(pairs, i) ==
  IF i > Len(pairs) THEN pairs
  ELSE resolveReferences(IF pairs[i].hasReference THEN LookBack(pairs, i, i - 1)
                         ELSE pairs,
                         i + 1)

\* the pairs of buildPairs before the references between them are resolved
createdPairs(messages) ==
  LET scanned == ScanPairs([result |-> <<>>, currentUserMessage |-> NoMessage,
                            pairIndex |-> 0], messages)
  IN IF scanned.currentUserMessage # NoMessage
     THEN Append(scanned.result,
                 createPair(scanned.currentUserMessage, NoMessage, scanned.pairIndex))
     ELSE scanned.result

\* ConversationPairManager.buildPairs
buildPairs(messages) == resolveReferences(createdPairs(messages), 1)

\* a conversion that returns the first message of each pair
PairMessages_first(pair) == <<pair.userMessage>>

\* messages.push(pair.userMessage); if (pair.assistantMessage) ...
PairMessages(pair) ==
  IF pair.assistantMessage # NoMessage THEN <<pair.userMessage, pair.assistantMessage>>
  ELSE <<pair.userMessage>>

\* ConversationPairManager.pairsToMessages
RECURSIVE pairsToMessages(_)
pairsToMessages(pairs) ==
  IF pairs = <<>> THEN <<>>
  ELSE PairMessages(Head(pairs)) \o pairsToMessages(Tail(pairs))

\* the number of characters of the texts of PairInfo
PairLength(c) ==
  CASE c = "What is TypeScript?" -> 19
    [] c = "Explain what is TypeScript?" -> 27
    [] c = "Give me 3 steps to learn it" -> 27
    [] c = "Step 1: Learn basics. Step 2: Practice. Step 3: Build projects." -> 63
    [] c = "Hello" -> 5
    [] c = "Hi there!" -> 9
    [] c = "You are a helpful assistant." -> 28
    [] c = "42" -> 2
    [] OTHER -> 0

\* tokenCounter = (t) => Math.ceil(t.length / 4)
pairTokenCounter(text) == CeilDiv(PairLength(text), 4)

\* ConversationPairManager.countPairTokens
RECURSIVE countPairTokens(_)
countPairTokens(pairs) ==
  IF pairs = <<>> THEN 0
  ELSE pairTokenCounter(Head(pairs).userMessage.content)
       + (IF Head(pairs).assistantMessage # NoMessage
          THEN pairTokenCounter(Head(pairs).assistantMessage.content) ELSE 0)
       + countPairTokens(Tail(pairs))

\* p.assistantMessage && this.containsListOrSteps(p.assistantMessage.content)
HasList(pair) ==
  pair.assistantMessage # NoMessage /\ PairInfo(pair.assistantMessage.content).list

\* Array.prototype.slice(-k) for k >= 0: slice(-0) is slice(0)
SliceLast(seq, k) ==
  IF k = 0 THEN seq
  ELSE SubSeq(seq, Max(1, Len(seq) - k + 1), Len(seq))

\* maxPairs = 20
DefaultMaxPairs == 20

\* this.minRecentPairs = options.minRecentPairs ?? 3
DefaultMinRecentPairs == 3

\* a selection that lets older pairs fill the whole budget
OlderShare_all == 10 + 0

\* currentTokens + pairTokens <= maxTokens * 0.6, in tenths
OlderShare == 6

\* a loop of selectPairs that adds a pair when the tokens, in tenths of a
\* token, stay within cap and fewer than limit pairs are selected (any
\* number when limit is NoOption); acc is [selected, currentTokens]
RECURSIVE AddFitting(_, _, _, _)
AddFitting(acc, pairs, cap, limit) ==
  IF pairs = <<>> THEN acc
  ELSE LET pair == Head(pairs)
           pairTokens == countPairTokens(<<pair>>)
           fits == /\ 10 * (acc.currentTokens + pairTokens) <= cap
                   /\ limit = NoOption \/ Len(acc.selected) < limit
       IN AddFitting(IF fits
                     THEN [selected |-> Append(acc.selected, pair),
                           currentTokens |-> acc.currentTokens + pairTokens]
                     ELSE acc,
                     Tail(pairs), cap, limit)

\* the pairs of a sequence of [key, pair], in the order of their keys
RECURSIVE PairsByKey(_)
PairsByKey(keyed) ==
  IF keyed = <<>> THEN <<>>
  ELSE <<Head(keyed).pair>> \o PairsByKey(Tail(keyed))

\* ConversationPairManager.selectPairs with the default token counter;
\* options is [maxPairs, maxTokens, currentQuery, minRecentPairs] and a
\* currentQuery of "" is none
selectPairs(pairs, options) ==
  IF pairs = <<>> THEN <<>>
  ELSE
    LET systemPairs == SelectIdx(pairs, LAMBDA p : p.userMessage.role = "system")
        nonSystemPairs == SelectIdx(pairs, LAMBDA p : p.userMessage.role # "system")
        recentPairs == SliceLast(nonSystemPairs, options.minRecentPairs)
        olderPairs == SliceDropLast(nonSystemPairs, options.minRecentPairs)
        referencedPairs ==
          IF options.currentQuery # "" /\ PairInfo(options.currentQuery).reference
          THEN SelectIdx(olderPairs, HasList) ELSE <<>>
        unreferenced ==
          SelectIdx(olderPairs,
                    LAMBDA p : \A k \in 1..Len(referencedPairs) : referencedPairs[k] # p)
        scoredOlder ==
          PairsByKey(StableSortByKey([k \in 1..Len(unreferenced) |->
                                        [key |-> 0 - unreferenced[k].importance,
                                         pair |-> unreferenced[k]]]))
        start == [selected |-> systemPairs, currentTokens |-> countPairTokens(systemPairs)]
        withReferenced == AddFitting(start, referencedPairs, 10 * options.maxTokens,
                                     options.maxPairs)
        withOlder == AddFitting(withReferenced, scoredOlder,
                                OlderShare * options.maxTokens,
                                options.maxPairs - options.minRecentPairs)
        withRecent == AddFitting(withOlder, recentPairs, 10 * options.maxTokens, NoOption)
    IN PairsByKey(StableSortByKey([k \in 1..Len(withRecent.selected) |->
                                     [key |-> withRecent.selected[k].timestamp,
                                      pair |-> withRecent.selected[k]]]))

\* new ConversationPairStrategy({ minRecentPairs })
NewStrategy(minRecentPairs) ==
  [minRecentPairs |-> IF minRecentPairs = NoOption THEN DefaultMinRecentPairs
                      ELSE minRecentPairs]

\* the pairs ConversationPairStrategy.apply selects
applySelected(strategy, messages, maxTokens, currentQuery) ==
  selectPairs(buildPairs(messages),
              [maxPairs |-> DefaultMaxPairs, maxTokens |-> maxTokens,
               currentQuery |-> currentQuery,
               minRecentPairs |-> strategy.minRecentPairs])

\* the messages of a list that fit a budget, one message at a time
RECURSIVE FitMessages(_, _)
FitMessages(messages, budget) ==
  IF messages = <<>> THEN <<>>
  ELSE LET tokens == pairTokenCounter(Head(messages).content)
       IN IF tokens <= budget
          THEN <<Head(messages)>> \o FitMessages(Tail(messages), budget - tokens)
          ELSE FitMessages(Tail(messages), budget)

\* a strategy that drops messages, not pairs
apply_perMessage(strategy, messages, maxTokens, currentQuery) ==
  FitMessages(pairsToMessages(buildPairs(messages)), maxTokens)

\* ConversationPairStrategy.apply
apply(strategy, messages, maxTokens, currentQuery) ==
  pairsToMessages(applySelected(strategy, messages, maxTokens, currentQuery))

\* ------------------------------------------------------------ BloomFilter
\* A 32-bit hash is held as [hi, lo], its upper and its lower 16 bits.  A
\* BloomFilter is [size, hashCount, bits], bits being the set of the places
\* byteIndex * 8 + bitIndex whose bit is set; a CountingBloomFilter is
\* [size, hashCount, counts], counts being the array of its counters.

\* hash1: FNV-1a of the items of the model
Hash1(item) ==
  CASE item = "s1" -> [hi |-> 2129, lo |-> 47305]    \* 139573449
    [] item = "s2" -> [hi |-> 1361, lo |-> 46096]    \* 89240592
    [] item = "a" -> [hi |-> 58380, lo |-> 10540]    \* 3826002220
    [] item = "c" -> [hi |-> 58892, lo |-> 11346]    \* 3859557458
    [] item = "y" -> [hi |-> 64524, lo |-> 20212]    \* 4228665076

\* hash2: DJB2 of the items of the model
Hash2(item) ==
  CASE item = "s1" -> [hi |-> 89, lo |-> 28839]      \* 5861543
    [] item = "s2" -> [hi |-> 89, lo |-> 28836]      \* 5861540
    [] item = "a" -> [hi |-> 2, lo |-> 46532]        \* 177604
    [] item = "c" -> [hi |-> 2, lo |-> 46534]        \* 177606
    [] item = "y" -> [hi |-> 2, lo |-> 46556]        \* 177628

\* Math.abs((h1 + i * h2) | 0): the sum is cut to 32 bits, read as a signed
\* number and made positive
DoubleHash(item, i) ==
  LET lo == Hash1(item).lo + i * Hash2(item).lo
      hi == (Hash1(item).hi + i * Hash2(item).hi + lo \div 65536) % 65536
      low == lo % 65536
  IN IF hi < 32768 THEN [hi |-> hi, lo |-> low]
     ELSE IF low = 0 THEN [hi |-> 65536 - hi, lo |-> 0]
     ELSE [hi |-> 65535 - hi, lo |-> 65536 - low]

\* hash % this.size
HashIndex(hash, size) ==
  ((((hash.hi % size) * 256) % size) * 256 + hash.lo) % size

\* getHashes, each hash taken modulo the size: the places of an item
getHashes(item, hashCount, size) ==
  [i \in 1..hashCount |-> HashIndex(DoubleHash(item, i - 1), size)]

\* the size and the hash count the constructors compute,
\* Math.ceil(-n * ln(p) / ln(2)^2) and Math.ceil(size / n * ln(2)), for the
\* expectedItems n and the falsePositiveRate p of the model
FilterShape(expectedItems, falsePositiveRate) ==
  CASE expectedItems = 1 /\ falsePositiveRate = "0.5" -> [size |-> 2, hashCount |-> 2]
    [] expectedItems = 2 /\ falsePositiveRate = "0.1" -> [size |-> 10, hashCount |-> 4]
    [] expectedItems = 10000 /\ falsePositiveRate = "0.01" ->
         [size |-> 95851, hashCount |-> 7]

\* new BloomFilter(expectedItems, falsePositiveRate)
NewBloomFilter(expectedItems, falsePositiveRate) ==
  [size |-> FilterShape(expectedItems, falsePositiveRate).size,
   hashCount |-> FilterShape(expectedItems, falsePositiveRate).hashCount,
   bits |-> {}]

\* the places of a filter's bit array that share a byte with a place
ByteOf(index) == {j \in (8 * (index \div 8))..(8 * (index \div 8) + 7) : TRUE}

\* an add that writes the byte of a hash instead of setting a bit in it
SetBit_write(bits, index) == (bits \ ByteOf(index)) \cup {index}

\* this.bits[byteIndex] = current | (1 << bitIndex)
SetBit(bits, index) == bits \cup {index}

\* the loop of BloomFilter.add over the hashes
RECURSIVE SetBits(_, _)
SetBits(bits, hashes) ==
  IF hashes = <<>> THEN bits
  ELSE SetBits(SetBit(bits, Head(hashes)), Tail(hashes))

\* BloomFilter.add
BloomAdd(f, item) ==
  [f EXCEPT !.bits = SetBits(@, getHashes(item, f.hashCount, f.size))]

\* BloomFilter.mightContain
BloomMightContain(f, item) ==
  \A i \in 1..f.hashCount : getHashes(item, f.hashCount, f.size)[i] \in f.bits

\* BloomFilter.clear
BloomClear(f) == [f EXCEPT !.bits = {}]

\* new CountingBloomFilter(expectedItems, falsePositiveRate)
NewCountingBloomFilter(expectedItems, falsePositiveRate) ==
  [size |-> FilterShape(expectedItems, falsePositiveRate).size,
   hashCount |-> FilterShape(expectedItems, falsePositiveRate).hashCount,
   counts |-> [i \in 0..(FilterShape(expectedItems, falsePositiveRate).size - 1) |-> 0]]

\* the loop of CountingBloomFilter.add over the hashes
RECURSIVE CountUp(_, _)
CountUp(counts, hashes) ==
  IF hashes = <<>> THEN counts
  ELSE CountUp(IF counts[Head(hashes)] < 255
               THEN [counts EXCEPT ![Head(hashes)] = @ + 1] ELSE counts,
               Tail(hashes))

\* the loop of CountingBloomFilter.remove over the hashes
RECURSIVE CountDown(_, _)
CountDown(counts, hashes) ==
  IF hashes = <<>> THEN counts
  ELSE CountDown(IF counts[Head(hashes)] > 0
                 THEN [counts EXCEPT ![Head(hashes)] = @ - 1] ELSE counts,
                 Tail(hashes))

\* CountingBloomFilter.add
CountingAdd(f, item) ==
  [f EXCEPT !.counts = CountUp(@, getHashes(item, f.hashCount, f.size))]

\* CountingBloomFilter.mightContain
CountingMightContain(f, item) ==
  \A i \in 1..f.hashCount : f.counts[getHashes(item, f.hashCount, f.size)[i]] # 0

\* CountingBloomFilter.remove
CountingRemove(f, item) ==
  IF ~CountingMightContain(f, item) THEN f
  ELSE [f EXCEPT !.counts = CountDown(@, getHashes(item, f.hashCount, f.size))]

\* CountingBloomFilter.clear
CountingClear(f) == [f EXCEPT !.counts = [i \in DOMAIN f.counts |-> 0]]

\* ------------------------------------------------------------ state

VARIABLES
  weaver,           \* "smart": a SmartContextWeaver; "plain": a ContextWeaver
  config,           \* the options the weaver was constructed with
  storage,          \* the storage adapter: [sessions, summaries]
  tokenCache,       \* SmartContextWeaver.tokenCache
  contextCache,     \* SmartContextWeaver.contextCache
  semanticIndex,    \* SmartContextWeaver.semanticIndex
  clock,            \* Date.now()
  nextId,           \* the ids generateId() has not given out yet start here
  summarizerCalls,  \* how many times the summarizer has been called
  lastCall,         \* the last call made, with what it returned
  left,             \* how many calls of each kind the run may still make
  autoImportance,   \* SmartContextWeaver.autoImportance, or an AutoImportance
                    \* of its own
  stamps,           \* a record of when the vectors of a SemanticIndex of its
                    \* own were computed: the number of add and remove calls
                    \* made, and for each document how many had been made
                    \* when its magnitude was written
  sessionFilter     \* SmartContextWeaver.sessionFilter, or a BloomFilter or
                    \* a CountingBloomFilter of its own

vars ==
  <<weaver, config, storage, tokenCache, contextCache, semanticIndex, clock,
    nextId, summarizerCalls, lastCall, left, autoImportance, stamps, sessionFilter>>

NoStamps == [mutations |-> 0, computed |-> EmptyMap]

\* ------------------------------------------------------------ bounds and inputs

\* the calls of a run, and those of each kind
MaxCalls == 3

MaxAdds == 2

MaxGets == 2

MaxPins == 1

MaxUnpins == 1

MaxClears == 1

MaxSummarizes == 1

MaxTicks == 1

\* the tokenLimit the weaver is constructed with
TokenLimit == 40

SessionIds == {"s1", "s2"}

\* add(sessionId, role, content, { pinned })
AddInputs ==
  {<<"user", "hotels", "undefined">>, <<"user", "personal", "undefined">>,
   <<"user", "budget", "true">>, <<"assistant", "ok", "false">>,
   <<"user", "budget", "undefined">>}

\* getContext(sessionId, { maxTokens, importanceThreshold, currentQuery }) of
\* a SmartContextWeaver
SmartGetInputs ==
  {<<NoOption, NoOption, "">>, <<20, NoOption, "">>, <<20, 60, "">>,
   <<0, NoOption, "">>, <<NoOption, NoOption, "Show me hotels">>,
   <<20, 60, "Show me hotels">>, <<55, NoOption, "">>}

\* getContext(sessionId, { maxTokens, includePinned, includeSummary }) of a
\* ContextWeaver
PlainGetInputs ==
  {<<NoOption, TRUE, TRUE>>, <<20, TRUE, TRUE>>, <<0, TRUE, TRUE>>,
   <<20, FALSE, TRUE>>, <<20, TRUE, FALSE>>}

\* summarize(sessionId, keepRecent)
KeepRecentInputs == {NoOption, 0}

\* the time that passes between two calls, in milliseconds
TickInputs == {1, ContextCacheTTL + 1}

\* ------------------------------------------------------------ initial states
\* The weaver is constructed over a storage adapter that may hold a session
\* "s1" written by an earlier weaver of the same kind.

Message(id, role, content, timestamp, pinned, importance) ==
  [id |-> id, role |-> role, content |-> content, timestamp |-> timestamp,
   pinned |-> pinned, importance |-> importance]

\* n messages "Show me hotels near the beach", added a millisecond apart
Bulk(n, importance) ==
  [i \in 1..n |-> Message(i, "user", "hotels", i, FALSE, importance)]

\* the sessions a SmartContextWeaver with tokenLimit 40 can have written
SmartHistories ==
  { <<>>,
    Bulk(15, 40),
    \* a preference, a long budget message, a short answer, then two pinned
    << Message(1, "user", "pref", 1, FALSE, 80),
       Message(2, "user", "longBudget", 2, FALSE, 85),
       Message(3, "assistant", "ok", 3, FALSE, 40),
       Message(4, "user", "budget", 4, TRUE, 100),
       Message(5, "user", "personal", 5, TRUE, 90) >>,
    \* a message pinned and unpinned again, one added with pinned: false
    << Message(1, "user", "pref", 1, FALSE, 100),
       Message(2, "user", "personal", 2, FALSE, 90),
       Message(3, "user", "pref", 3, FALSE, 80) >>,
    \* a short answer, a question, then ten more short answers
    [i \in 1..12 |-> IF i = 2 THEN Message(2, "user", "hotels", 2, FALSE, 40)
                     ELSE Message(i, "assistant", "ok", i, FALSE, 40)] }

\* the sessions a ContextWeaver with a summarizer and the thresholds of
\* PlainConfig can have written
PlainHistories ==
  { <<>>,
    Bulk(10, NoImportance),
    << Message(1, "user", "pref", 1, FALSE, NoImportance),
       Message(2, "user", "longBudget", 2, FALSE, NoImportance),
       Message(3, "assistant", "ok", 3, FALSE, NoImportance),
       Message(4, "user", "budget", 4, TRUE, NoImportance),
       Message(5, "user", "personal", 5, TRUE, NoImportance) >> }

\* new SmartContextWeaver({ storage, tokenLimit })
SmartConfig ==
  [tokenLimit |-> TokenLimit, enableSemantic |-> TRUE,
   enableAutoImportance |-> TRUE, enableLocalSummary |-> TRUE,
   recentMessageCount |-> 10, summarizeThreshold |-> TokenLimit * 2,
   summarizer |-> TRUE]

\* new ContextWeaver({ storage, tokenLimit, summarizer })
PlainConfig ==
  [tokenLimit |-> TokenLimit, enableSemantic |-> FALSE,
   enableAutoImportance |-> FALSE, enableLocalSummary |-> FALSE,
   recentMessageCount |-> 10, summarizeThreshold |-> TokenLimit * 2,
   summarizer |-> TRUE]

StorageWith(history) ==
  IF history = <<>> THEN NewStorage
  ELSE [sessions |-> MapSet(EmptyMap, "s1", history), summaries |-> EmptyMap]

Init ==
  /\ weaver \in {"smart", "plain"}
  /\ config = IF weaver = "smart" THEN SmartConfig ELSE PlainConfig
  /\ \E history \in IF weaver = "smart" THEN SmartHistories ELSE PlainHistories :
       storage = StorageWith(history)
  /\ tokenCache = NewLRUCache(TokenCacheCapacity, TokenCacheTTL)
  /\ contextCache = NewLRUCache(ContextCacheCapacity, ContextCacheTTL)
  /\ semanticIndex = NewSemanticIndex
  /\ clock = 100
  /\ nextId = 100
  /\ summarizerCalls = 0
  /\ lastCall = [op |-> "new"]
  /\ autoImportance = NewAutoImportance(DEFAULT_RULES)
  /\ stamps = NoStamps
  /\ sessionFilter = NewBloomFilter(10000, "0.01")
  /\ left = [calls |-> MaxCalls, add |-> MaxAdds, get |-> MaxGets, pin |-> MaxPins, unpin |-> MaxUnpins,
              clear |-> MaxClears, summarize |-> MaxSummarizes, tick |-> MaxTicks]

\* ------------------------------------------------------------ SmartContextWeaver calls

\* an add that pins every very important message, whatever options.pinned
PinnedOnAdd_auto(pinnedOption, importance) == pinnedOption = "true" \/ importance >= 90

\* pinned: options.pinned ?? (importance >= 0.9)
PinnedOnAdd(pinnedOption, importance) ==
  IF pinnedOption = "undefined" THEN importance >= 90 ELSE pinnedOption = "true"

\* SmartContextWeaver.add
SmartAdd(sessionId, role, content, pinnedOption) ==
  /\ weaver = "smart"
  /\ left.calls > 0 /\ left.add > 0
  /\ LET importance == IF pinnedOption = "true" THEN 100
                       ELSE IF config.enableAutoImportance
                            THEN quickImportanceCheck(content) ELSE 50
         message == Message(nextId, role, content, clock,
                            PinnedOnAdd(pinnedOption, importance), importance)
         stored == addMessage(storage, sessionId, message)
         indexed == IF config.enableSemantic THEN IndexAdd(semanticIndex, message)
                    ELSE semanticIndex
         auto == SmartMaybeAutoSummarize(stored, tokenCache, indexed, sessionId,
                                         config.tokenLimit, config.enableLocalSummary,
                                         clock)
     IN /\ storage' = auto.storage
        /\ tokenCache' = auto.tokenCache
        /\ semanticIndex' = auto.semanticIndex
        /\ sessionFilter' = BloomAdd(sessionFilter, sessionId)
        /\ contextCache' = LruDelete(contextCache,
                                     cacheKey(sessionId, NoOption, config.tokenLimit))
        /\ summarizerCalls' = summarizerCalls + (IF auto.called THEN 1 ELSE 0)
        /\ lastCall' = [op |-> "add", sessionId |-> sessionId, id |-> message.id,
                        pinnedOption |-> pinnedOption,
                        stored |-> getMessages(stored, sessionId),
                        priorSummary |-> getSummary(stored, sessionId),
                        totalTokens |-> auto.total,
                        summarized |-> auto.called]
  /\ nextId' = nextId + 1
  /\ left' = [left EXCEPT !.calls = @ - 1, !.add = @ - 1]
  /\ UNCHANGED <<weaver, config, clock>>
  /\ UNCHANGED <<autoImportance, stamps>>

\* SmartContextWeaver.getContext answered from the context cache
SmartGetCached(sessionId, maxTokens, importanceThreshold, currentQuery, key) ==
  /\ contextCache' = LruGetCache(contextCache, key, clock)
  /\ lastCall' = [op |-> "getContext", sessionId |-> sessionId, maxTokens |-> maxTokens,
                  importanceThreshold |-> importanceThreshold,
                  currentQuery |-> currentQuery, cached |-> TRUE,
                  semanticBoost |-> {}, sortedRegular |-> <<>>,
                  result |-> LruGetValue(contextCache, key)]
  /\ UNCHANGED <<storage, tokenCache, summarizerCalls>>

\* SmartContextWeaver.getContext building the context
SmartGetBuilt(sessionId, maxTokens, importanceThreshold, currentQuery, key) ==
  LET allMessages == getMessages(storage, sessionId)
      summary == getSummary(storage, sessionId)
      scored == scoreMessages(allMessages)
      semanticBoost == IF currentQuery # "" /\ config.enableSemantic
                       THEN findRelevant(QueryTerms(currentQuery), allMessages, 5)
                       ELSE {}
      regular == SelectIdx(scored, LAMBDA x : ~x.message.pinned)
  IN \E sortedRegular \in SortOutcomes(Survivors(regular, importanceThreshold,
                                                 semanticBoost)) :
       LET built == buildContext(scored, summary, maxTokens, sortedRegular,
                                 tokenCache, clock)
       IN /\ tokenCache' = built.tokenCache
          /\ contextCache' = IF currentQuery = ""
                             THEN LruSet(LruGetCache(contextCache, key, clock), key,
                                         built.result, NoOption, clock)
                             ELSE contextCache
          /\ lastCall' = [op |-> "getContext", sessionId |-> sessionId,
                          maxTokens |-> maxTokens,
                          importanceThreshold |-> importanceThreshold,
                          currentQuery |-> currentQuery, cached |-> FALSE,
                          semanticBoost |-> semanticBoost,
                          sortedRegular |-> sortedRegular,
                          result |-> built.result]
          /\ UNCHANGED <<storage, summarizerCalls>>

\* SmartContextWeaver.getContext
SmartGetContext(sessionId, maxTokensOption, thresholdOption, currentQuery) ==
  /\ weaver = "smart"
  /\ left.calls > 0 /\ left.get > 0
  /\ LET maxTokens == IF maxTokensOption = NoOption THEN config.tokenLimit
                      ELSE maxTokensOption
         importanceThreshold == IF thresholdOption = NoOption THEN 30
                                ELSE thresholdOption
         key == cacheKey(sessionId, maxTokens, config.tokenLimit)
     IN IF currentQuery = "" /\ LruHit(contextCache, key, clock)
        THEN SmartGetCached(sessionId, maxTokens, importanceThreshold, currentQuery, key)
        ELSE SmartGetBuilt(sessionId, maxTokens, importanceThreshold, currentQuery, key)
  /\ left' = [left EXCEPT !.calls = @ - 1, !.get = @ - 1]
  /\ UNCHANGED <<weaver, config, semanticIndex, clock, nextId>>
  /\ UNCHANGED <<autoImportance, stamps, sessionFilter>>

\* SmartContextWeaver.pin
SmartPin(sessionId, messageId) ==
  /\ weaver = "smart"
  /\ left.calls > 0 /\ left.pin > 0
  /\ storage' = updateMessage(storage, sessionId, messageId, TRUE, 100)
  /\ contextCache' = LruDelete(contextCache,
                               cacheKey(sessionId, NoOption, config.tokenLimit))
  /\ lastCall' = [op |-> "pin", sessionId |-> sessionId, id |-> messageId]
  /\ left' = [left EXCEPT !.calls = @ - 1, !.pin = @ - 1]
  /\ UNCHANGED <<weaver, config, tokenCache, semanticIndex, clock, nextId,
                 summarizerCalls>>
  /\ UNCHANGED <<autoImportance, stamps, sessionFilter>>

\* SmartContextWeaver.unpin
SmartUnpin(sessionId, messageId) ==
  /\ weaver = "smart"
  /\ left.calls > 0 /\ left.unpin > 0
  /\ storage' = updateMessage(storage, sessionId, messageId, FALSE, NoImportance)
  /\ contextCache' = LruDelete(contextCache,
                               cacheKey(sessionId, NoOption, config.tokenLimit))
  /\ lastCall' = [op |-> "unpin", sessionId |-> sessionId, id |-> messageId]
  /\ left' = [left EXCEPT !.calls = @ - 1, !.unpin = @ - 1]
  /\ UNCHANGED <<weaver, config, tokenCache, semanticIndex, clock, nextId,
                 summarizerCalls>>
  /\ UNCHANGED <<autoImportance, stamps, sessionFilter>>

\* SmartContextWeaver.clear
SmartClear(sessionId) ==
  /\ weaver = "smart"
  /\ left.calls > 0 /\ left.clear > 0
  /\ storage' = clearSession(storage, sessionId)
  /\ contextCache' = LruDelete(contextCache,
                               cacheKey(sessionId, NoOption, config.tokenLimit))
  /\ lastCall' = [op |-> "clear", sessionId |-> sessionId]
  /\ left' = [left EXCEPT !.calls = @ - 1, !.clear = @ - 1]
  /\ UNCHANGED <<weaver, config, tokenCache, semanticIndex, clock, nextId,
                 summarizerCalls>>
  /\ UNCHANGED <<autoImportance, stamps, sessionFilter>>

\* time passes between two calls
Tick(d) ==
  /\ left.calls > 0 /\ left.tick > 0
  /\ clock' = clock + d
  /\ lastCall' = [op |-> "tick"]
  /\ left' = [left EXCEPT !.calls = @ - 1, !.tick = @ - 1]
  /\ UNCHANGED <<weaver, config, storage, tokenCache, contextCache, semanticIndex,
                 nextId, summarizerCalls>>
  /\ UNCHANGED <<autoImportance, stamps, sessionFilter>>

\* the ids a pin or unpin call is given: those of the first and of the last
\* stored message of the session, and one that is not stored
MessageIds(sessionId) ==
  LET messages == getMessages(storage, sessionId)
  IN {messages[i].id : i \in {1, Len(messages)} \cap 1..Len(messages)} \cup {0}

\* ------------------------------------------------------------ ContextWeaver

\* the id 'existing' of the message summarize() makes of the stored summary
ExistingId == 0 - 2

\* countMessageTokens on a message with the given counts
countInfoTokens(info) == CounterOfInfo(info) + 4

\* steps 1 and 2 of ContextWeaver.getContext
CwAddSummary(acc, summary, maxTokens) ==
  IF summary = NoSummary THEN acc
  ELSE LET text == "Previous conversation summary: " \o SummaryText(summary)
           summaryTokens == countInfoTokens(PrefixedInfo(31, 3, SummaryInfo(summary)))
       IN IF Fits(acc.tokenCount, summaryTokens, maxTokens)
          THEN [acc EXCEPT !.result = Append(@, Entry("summary", "system", text, 0, 0, 0)),
                           !.tokenCount = @ + summaryTokens,
                           !.wasSummarized = TRUE]
          ELSE acc

RECURSIVE CwAddPinned(_, _, _)
CwAddPinned(acc, sortedPinned, maxTokens) ==
  IF sortedPinned = <<>> THEN acc
  ELSE LET msg == Head(sortedPinned)
           msgTokens == countMessageTokens(msg.content)
       IN IF Fits(acc.tokenCount, msgTokens, maxTokens)
          THEN CwAddPinned([acc EXCEPT !.result = Append(@, Entry("pinned", msg.role,
                                                   msg.content, msg.id, msg.timestamp,
                                                   msg.importance)),
                                       !.tokenCount = @ + msgTokens],
                           Tail(sortedPinned), maxTokens)
          ELSE CwAddPinned(acc, Tail(sortedPinned), maxTokens)

\* step 3 of ContextWeaver.getContext: from the newest unpinned message back,
\* until one does not fit
RECURSIVE CwAddRecent(_, _, _)
CwAddRecent(acc, reversedUnpinned, maxTokens) ==
  IF reversedUnpinned = <<>> THEN acc
  ELSE LET msg == Head(reversedUnpinned)
           msgTokens == countMessageTokens(msg.content)
       IN IF Fits(acc.tokenCount, msgTokens, maxTokens)
          THEN CwAddRecent([acc EXCEPT !.recentMessages =
                                         <<Entry("regular", msg.role, msg.content, msg.id,
                                                 msg.timestamp, msg.importance)>> \o @,
                                       !.tokenCount = @ + msgTokens],
                           Tail(reversedUnpinned), maxTokens)
          ELSE acc

Reverse(seq) == [i \in 1..Len(seq) |-> seq[Len(seq) + 1 - i]]

\* ContextWeaver.getContext with no strategy and no hooks: the result
CwBuild(st, sessionId, maxTokens, includePinned, includeSummary) ==
  LET allMessages == getMessages(st, sessionId)
      summary == IF includeSummary THEN getSummary(st, sessionId) ELSE NoSummary
      parts == partitionMessages(allMessages)
      sortedUnpinned == sortByTimestamp(parts.unpinned)
      acc0 == [result |-> <<>>, tokenCount |-> 0, wasSummarized |-> FALSE,
               recentMessages |-> <<>>]
      acc1 == CwAddSummary(acc0, summary, maxTokens)
      sortedPinned == IF includePinned THEN sortByTimestamp(parts.pinned) ELSE <<>>
      acc2 == CwAddPinned(acc1, sortedPinned, maxTokens)
      acc3 == CwAddRecent(acc2, Reverse(sortedUnpinned), maxTokens)
      messages == acc3.result \o acc3.recentMessages
  IN [messages |-> messages,
      tokenCount |-> acc3.tokenCount,
      messageCount |-> Len(messages),
      wasSummarized |-> acc3.wasSummarized,
      pinnedCount |-> Len(sortedPinned),
      strategyUsed |-> Undefined]

\* a summarize that clears the session instead of leaving it alone
CwSummarizeStorage_clearing(st, sessionId, keepRecent, cfg) ==
  [storage |-> clearSession(st, sessionId), called |-> FALSE, result |-> NoSummary]

\* ContextWeaver.summarize: the storage after the call, whether the
\* summarizer was called and what the call returns (NoSummary for null)
CwSummarizeStorage(st, sessionId, keepRecent, cfg) ==
  LET sorted == sortByTimestamp(partitionMessages(getMessages(st, sessionId)).unpinned)
      keep == IF keepRecent = NoOption THEN cfg.recentMessageCount ELSE keepRecent
      toSummarize == SliceDropLast(sorted, keep)
      existingSummary == getSummary(st, sessionId)
      summaryInput ==
        IF existingSummary # NoSummary
        THEN <<Message(ExistingId, "system", "Previous summary: "
                         \o SummaryText(existingSummary), 0, FALSE, NoImportance)>>
               \o toSummarize
        ELSE toSummarize
  IN IF ~cfg.summarizer \/ Len(sorted) <= keep
     THEN [storage |-> st, called |-> FALSE, result |-> NoSummary]
     ELSE [storage |-> DeleteAll(setSummary(st, sessionId, <<Summarizer(summaryInput)>>),
                                 sessionId, toSummarize),
           called |-> TRUE, result |-> <<Summarizer(summaryInput)>>]

\* getStats(sessionId).estimatedTokens
RECURSIVE estimatedTokens(_)
estimatedTokens(messages) ==
  IF messages = <<>> THEN 0
  ELSE countMessageTokens(Head(messages).content) + estimatedTokens(Tail(messages))

\* ContextWeaver.maybeAutoSummarize
CwMaybeAutoSummarize(st, sessionId, cfg) ==
  IF cfg.summarizer
     /\ estimatedTokens(getMessages(st, sessionId)) >= cfg.summarizeThreshold
  THEN CwSummarizeStorage(st, sessionId, NoOption, cfg)
  ELSE [storage |-> st, called |-> FALSE, result |-> NoSummary]

\* what the calls of a ContextWeaver leave alone
PlainUnchanged ==
  UNCHANGED <<weaver, config, tokenCache, contextCache, semanticIndex, clock,
              autoImportance, stamps, sessionFilter>>

\* ContextWeaver.add
CwAdd(sessionId, role, content, pinnedOption) ==
  /\ weaver = "plain"
  /\ left.calls > 0 /\ left.add > 0
  /\ LET message == Message(nextId, role, content, clock, pinnedOption = "true",
                            NoImportance)
         stored == addMessage(storage, sessionId, message)
         auto == CwMaybeAutoSummarize(stored, sessionId, config)
     IN /\ storage' = auto.storage
        /\ summarizerCalls' = summarizerCalls + (IF auto.called THEN 1 ELSE 0)
        /\ lastCall' = [op |-> "add", sessionId |-> sessionId, id |-> message.id,
                        pinnedOption |-> pinnedOption,
                        stored |-> getMessages(stored, sessionId),
                        priorSummary |-> getSummary(stored, sessionId),
                        totalTokens |-> estimatedTokens(getMessages(stored, sessionId)),
                        summarized |-> auto.called]
  /\ nextId' = nextId + 1
  /\ left' = [left EXCEPT !.calls = @ - 1, !.add = @ - 1]
  /\ PlainUnchanged

\* a getContext that summarizes the session before it reads it
CwGetContext_summarizing(sessionId, maxTokensOption, includePinned, includeSummary) ==
  /\ weaver = "plain"
  /\ left.calls > 0 /\ left.get > 0
  /\ LET maxTokens == IF maxTokensOption = NoOption THEN config.tokenLimit
                      ELSE maxTokensOption
         done == CwSummarizeStorage(storage, sessionId, 0, config)
     IN /\ storage' = done.storage
        /\ summarizerCalls' = summarizerCalls + (IF done.called THEN 1 ELSE 0)
        /\ lastCall' = [op |-> "getContext", sessionId |-> sessionId,
                        maxTokens |-> maxTokens, includePinned |-> includePinned,
                        includeSummary |-> includeSummary, cached |-> FALSE,
                        result |-> CwBuild(done.storage, sessionId, maxTokens,
                                           includePinned, includeSummary)]
  /\ left' = [left EXCEPT !.calls = @ - 1, !.get = @ - 1]
  /\ UNCHANGED nextId
  /\ PlainUnchanged

\* ContextWeaver.getContext
CwGetContext(sessionId, maxTokensOption, includePinned, includeSummary) ==
  /\ weaver = "plain"
  /\ left.calls > 0 /\ left.get > 0
  /\ LET maxTokens == IF maxTokensOption = NoOption THEN config.tokenLimit
                      ELSE maxTokensOption
     IN lastCall' = [op |-> "getContext", sessionId |-> sessionId,
                     maxTokens |-> maxTokens, includePinned |-> includePinned,
                     includeSummary |-> includeSummary, cached |-> FALSE,
                     result |-> CwBuild(storage, sessionId, maxTokens, includePinned,
                                        includeSummary)]
  /\ left' = [left EXCEPT !.calls = @ - 1, !.get = @ - 1]
  /\ UNCHANGED <<storage, nextId, summarizerCalls>>
  /\ PlainUnchanged

\* ContextWeaver.pin
CwPin(sessionId, messageId) ==
  /\ weaver = "plain"
  /\ left.calls > 0 /\ left.pin > 0
  /\ storage' = updateMessage(storage, sessionId, messageId, TRUE, NoImportance)
  /\ lastCall' = [op |-> "pin", sessionId |-> sessionId, id |-> messageId]
  /\ left' = [left EXCEPT !.calls = @ - 1, !.pin = @ - 1]
  /\ UNCHANGED <<nextId, summarizerCalls>>
  /\ PlainUnchanged

\* ContextWeaver.unpin
CwUnpin(sessionId, messageId) ==
  /\ weaver = "plain"
  /\ left.calls > 0 /\ left.unpin > 0
  /\ storage' = updateMessage(storage, sessionId, messageId, FALSE, NoImportance)
  /\ lastCall' = [op |-> "unpin", sessionId |-> sessionId, id |-> messageId]
  /\ left' = [left EXCEPT !.calls = @ - 1, !.unpin = @ - 1]
  /\ UNCHANGED <<nextId, summarizerCalls>>
  /\ PlainUnchanged

\* ContextWeaver.summarize
CwSummarize(sessionId, keepRecent) ==
  /\ weaver = "plain"
  /\ left.calls > 0 /\ left.summarize > 0
  /\ LET done == CwSummarizeStorage(storage, sessionId, keepRecent, config)
     IN /\ storage' = done.storage
        /\ summarizerCalls' = summarizerCalls + (IF done.called THEN 1 ELSE 0)
        /\ lastCall' = [op |-> "summarize", sessionId |-> sessionId,
                        keepRecent |-> keepRecent, summarized |-> done.called,
                        result |-> done.result]
  /\ left' = [left EXCEPT !.calls = @ - 1, !.summarize = @ - 1]
  /\ UNCHANGED nextId
  /\ PlainUnchanged

\* ContextWeaver.clear
CwClear(sessionId) ==
  /\ weaver = "plain"
  /\ left.calls > 0 /\ left.clear > 0
  /\ storage' = clearSession(storage, sessionId)
  /\ lastCall' = [op |-> "clear", sessionId |-> sessionId]
  /\ left' = [left EXCEPT !.calls = @ - 1, !.clear = @ - 1]
  /\ UNCHANGED <<nextId, summarizerCalls>>
  /\ PlainUnchanged

\* ------------------------------------------------------------ specification

Next ==
  \/ \E sessionId \in SessionIds, input \in AddInputs :
       SmartAdd(sessionId, input[1], input[2], input[3])
  \/ \E sessionId \in SessionIds, input \in SmartGetInputs :
       SmartGetContext(sessionId, input[1], input[2], input[3])
  \/ \E sessionId \in SessionIds : \E messageId \in MessageIds(sessionId) :
       SmartPin(sessionId, messageId)
  \/ \E sessionId \in SessionIds : \E messageId \in MessageIds(sessionId) :
       SmartUnpin(sessionId, messageId)
  \/ \E sessionId \in SessionIds : SmartClear(sessionId)
  \/ \E sessionId \in SessionIds, input \in AddInputs :
       CwAdd(sessionId, input[1], input[2], input[3])
  \/ \E sessionId \in SessionIds, input \in PlainGetInputs :
       CwGetContext(sessionId, input[1], input[2], input[3])
  \/ \E sessionId \in SessionIds : \E messageId \in MessageIds(sessionId) :
       CwPin(sessionId, messageId)
  \/ \E sessionId \in SessionIds : \E messageId \in MessageIds(sessionId) :
       CwUnpin(sessionId, messageId)
  \/ \E sessionId \in SessionIds, keepRecent \in KeepRecentInputs :
       CwSummarize(sessionId, keepRecent)
  \/ \E sessionId \in SessionIds : CwClear(sessionId)
  \/ \E d \in TickInputs : Tick(d)

Spec == Init /\ [][Next]_vars

\* ------------------------------------------------------------ two sessions of one weaver
\* A SmartContextWeaver serves session "s1" and session "s2" from the same
\* token cache, context cache and index.  Session "s1" holds "ok" and
\* "hi good why" only: none of its own cache keys meets another, and it
\* stays far below what maybeAutoSummarize summarizes.

\* add(sessionId, role, content, { pinned })
SessionAddInputs ==
  { <<"s1", "user", "ok", "false">>, <<"s2", "user", "user:ok", "false">>,
    <<"s2", "user", "hotels", "undefined">> }

\* the storage the weaver is constructed over: empty, or holding a message
\* of each session written by an earlier weaver
SessionHistories ==
  { NewStorage,
    [sessions |-> MapSet(MapSet(EmptyMap, "s1",
                                << Message(1, "user", "hi good why", 1, FALSE, 40) >>),
                         "s2", << Message(2, "user", "nope no nice who", 2, FALSE, 40) >>),
     summaries |-> EmptyMap] }

SessionsInit ==
  /\ weaver = "smart"
  /\ config = SmartConfig
  /\ storage \in SessionHistories
  /\ tokenCache = NewLRUCache(TokenCacheCapacity, TokenCacheTTL)
  /\ contextCache = NewLRUCache(ContextCacheCapacity, ContextCacheTTL)
  /\ semanticIndex = NewSemanticIndex
  /\ clock = 100
  /\ nextId = 100
  /\ summarizerCalls = 0
  /\ lastCall = [op |-> "new"]
  /\ autoImportance = NewAutoImportance(DEFAULT_RULES)
  /\ stamps = NoStamps
  /\ sessionFilter = NewBloomFilter(10000, "0.01")
  /\ left = [calls |-> MaxCalls, add |-> MaxAdds, get |-> MaxGets, pin |-> MaxPins,
             unpin |-> MaxUnpins, clear |-> MaxClears, summarize |-> MaxSummarizes,
             tick |-> MaxTicks]

SessionsNext ==
  \/ \E input \in SessionAddInputs : SmartAdd(input[1], input[2], input[3], input[4])
  \/ \E sessionId \in SessionIds, maxTokens \in {NoOption, 20} :
       SmartGetContext(sessionId, maxTokens, NoOption, "")

SessionsSpec == SessionsInit /\ [][SessionsNext]_vars

\* ------------------------------------------------------------ a ContextWeaver without a summarizer

\* new ContextWeaver({ storage, tokenLimit })
NoSummarizerConfig == [PlainConfig EXCEPT !.summarizer = FALSE]

NoSummarizerInit ==
  /\ weaver = "plain"
  /\ config = NoSummarizerConfig
  /\ \E history \in PlainHistories : storage = StorageWith(history)
  /\ tokenCache = NewLRUCache(TokenCacheCapacity, TokenCacheTTL)
  /\ contextCache = NewLRUCache(ContextCacheCapacity, ContextCacheTTL)
  /\ semanticIndex = NewSemanticIndex
  /\ clock = 100
  /\ nextId = 100
  /\ summarizerCalls = 0
  /\ lastCall = [op |-> "new"]
  /\ autoImportance = NewAutoImportance(DEFAULT_RULES)
  /\ stamps = NoStamps
  /\ sessionFilter = NewBloomFilter(10000, "0.01")
  /\ left = [calls |-> MaxCalls, add |-> MaxAdds, get |-> MaxGets, pin |-> MaxPins,
             unpin |-> MaxUnpins, clear |-> MaxClears, summarize |-> MaxSummarizes,
             tick |-> MaxTicks]

NoSummarizerNext ==
  \/ \E sessionId \in SessionIds, input \in AddInputs :
       CwAdd(sessionId, input[1], input[2], input[3])
  \/ \E sessionId \in SessionIds, keepRecent \in KeepRecentInputs :
       CwSummarize(sessionId, keepRecent)
  \/ \E sessionId \in SessionIds : \E messageId \in MessageIds(sessionId) :
       CwPin(sessionId, messageId)

NoSummarizerSpec == NoSummarizerInit /\ [][NoSummarizerNext]_vars

\* ------------------------------------------------------------ a SmartContextWeaver with or without auto importance
\* The weaver starts over an empty storage: every message it reads was
\* stored through its add.

\* add(sessionId, role, content, { pinned })
OptionsAddInputs ==
  { <<"user", "personal", "undefined">>, <<"user", "personal", "false">>,
    <<"user", "budget", "undefined">>, <<"assistant", "ok", "undefined">>,
    <<"assistant", "ok", "true">> }

OptionsInit ==
  /\ weaver = "smart"
  /\ config \in {SmartConfig, [SmartConfig EXCEPT !.enableAutoImportance = FALSE]}
  /\ storage = NewStorage
  /\ tokenCache = NewLRUCache(TokenCacheCapacity, TokenCacheTTL)
  /\ contextCache = NewLRUCache(ContextCacheCapacity, ContextCacheTTL)
  /\ semanticIndex = NewSemanticIndex
  /\ clock = 100
  /\ nextId = 100
  /\ summarizerCalls = 0
  /\ lastCall = [op |-> "new"]
  /\ autoImportance = NewAutoImportance(DEFAULT_RULES)
  /\ stamps = NoStamps
  /\ sessionFilter = NewBloomFilter(10000, "0.01")
  /\ left = [calls |-> MaxCalls + 1, add |-> MaxAdds, get |-> MaxGets, pin |-> MaxPins,
             unpin |-> MaxUnpins, clear |-> MaxClears, summarize |-> MaxSummarizes,
             tick |-> MaxTicks]

OptionsNext ==
  \/ \E input \in OptionsAddInputs : SmartAdd("s1", input[1], input[2], input[3])
  \/ \E maxTokens \in {NoOption, 20}, currentQuery \in {"", "Show me hotels"} :
       SmartGetContext("s1", maxTokens, NoOption, currentQuery)
  \/ \E messageId \in MessageIds("s1") : SmartPin("s1", messageId)
  \/ \E messageId \in MessageIds("s1") : SmartUnpin("s1", messageId)

OptionsSpec == OptionsInit /\ [][OptionsNext]_vars

\* ------------------------------------------------------------ a storage or a summarizer that fails
\* The operations of the storage adapter and the summarizer return promises.
\* In the calls below one operation rejects the first time the call invokes
\* it; the error is named after the operation.

MaxFailingCalls == 2

Operations ==
  {"addMessage", "getMessages", "getSummary", "setSummary", "deleteMessage",
   "updateMessage", "clearSession", "summarizer"}

Resolved == [status |-> "resolved", error |-> "none"]

\* an async function that catches what its awaits throw
InOrder_caught(awaits, failing) == Resolved

\* the awaits of an async function, in order and outside any try/catch: the
\* first operation that rejects makes its await throw, which ends the
\* function and rejects its promise with the same error
RECURSIVE InOrder(_, _)
InOrder(awaits, failing) ==
  IF awaits = <<>> THEN Resolved
  ELSE IF Head(awaits) = failing THEN [status |-> "rejected", error |-> Head(awaits)]
       ELSE InOrder(Tail(awaits), failing)

\* whether the call got past its await of the operation
RECURSIVE Done(_, _, _)
Done(awaits, failing, operation) ==
  IF awaits = <<>> \/ Head(awaits) = failing THEN FALSE
  ELSE Head(awaits) = operation \/ Done(Tail(awaits), failing, operation)

\* the operations SmartContextWeaver.maybeAutoSummarize awaits, given what it
\* does when none fails
SmartMaybeAwaits(auto) ==
  <<"getMessages">> \o
  (IF auto.called THEN <<"summarizer", "getSummary", "setSummary", "deleteMessage">>
   ELSE <<>>)

\* a summarization that has deleted the messages when its deleteMessage
\* rejects, and has not stored the summary
SummaryOnly_deleted(st, done, sessionId) == [done EXCEPT !.summaries = st.summaries]

\* the storage when setSummary has resolved and the first deleteMessage has
\* not
SummaryOnly(st, done, sessionId) == setSummary(st, sessionId, getSummary(done, sessionId))

\* SmartContextWeaver.add up to the await that throws: stored, indexed and
\* auto are the storage after addMessage, the index after semanticIndex.add
\* and what maybeAutoSummarize does when nothing fails
SmartAddUntil(sessionId, stored, indexed, auto, awaits, failing) ==
  /\ \E i \in 1..Len(awaits) : awaits[i] = failing
  /\ storage' = IF Done(awaits, failing, "setSummary")
                THEN SummaryOnly(stored, auto.storage, sessionId)
                ELSE IF Done(awaits, failing, "addMessage") THEN stored ELSE storage
  /\ tokenCache' = IF Done(awaits, failing, "getMessages") THEN auto.tokenCache
                   ELSE tokenCache
  /\ semanticIndex' = IF Done(awaits, failing, "addMessage") THEN indexed
                      ELSE semanticIndex
  /\ sessionFilter' = IF Done(awaits, failing, "addMessage")
                      THEN BloomAdd(sessionFilter, sessionId) ELSE sessionFilter
  /\ contextCache' = IF Done(awaits, failing, "addMessage")
                     THEN LruDelete(contextCache,
                                    cacheKey(sessionId, NoOption, config.tokenLimit))
                     ELSE contextCache
  /\ summarizerCalls' = summarizerCalls
                        + (IF Done(awaits, failing, "summarizer") \/ failing = "summarizer"
                           THEN 1 ELSE 0)
  /\ lastCall' = [op |-> "add", sessionId |-> sessionId, failing |-> failing,
                  awaits |-> awaits, outcome |-> InOrder(awaits, failing)]

\* the storage after addMessage, the index after semanticIndex.add and what
\* maybeAutoSummarize does then when nothing fails
SmartAddSteps(sessionId, message) ==
  LET stored == addMessage(storage, sessionId, message)
      indexed == IF config.enableSemantic THEN IndexAdd(semanticIndex, message)
                 ELSE semanticIndex
  IN [stored |-> stored, indexed |-> indexed,
      auto |-> SmartMaybeAutoSummarize(stored, tokenCache, indexed, sessionId,
                                       config.tokenLimit, config.enableLocalSummary,
                                       clock)]

\* SmartContextWeaver.add over a failing operation
SmartAddFailing(sessionId, role, content, pinnedOption, failing) ==
  /\ weaver = "smart"
  /\ left.calls > 0
  /\ LET importance == IF pinnedOption = "true" THEN 100
                       ELSE IF config.enableAutoImportance
                            THEN quickImportanceCheck(content) ELSE 50
         message == Message(nextId, role, content, clock,
                            PinnedOnAdd(pinnedOption, importance), importance)
     IN \E steps \in {SmartAddSteps(sessionId, message)} :
          SmartAddUntil(sessionId, steps.stored, steps.indexed, steps.auto,
                        <<"addMessage">> \o SmartMaybeAwaits(steps.auto), failing)
  /\ nextId' = nextId + 1
  /\ left' = [left EXCEPT !.calls = @ - 1]
  /\ UNCHANGED <<weaver, config, clock, autoImportance, stamps>>

\* SmartContextWeaver.getContext over a failing operation
SmartGetContextFailing(sessionId, maxTokensOption, currentQuery, failing) ==
  /\ weaver = "smart"
  /\ left.calls > 0
  /\ LET maxTokens == IF maxTokensOption = NoOption THEN config.tokenLimit
                      ELSE maxTokensOption
         key == cacheKey(sessionId, maxTokens, config.tokenLimit)
         cached == currentQuery = "" /\ LruHit(contextCache, key, clock)
         awaits == IF cached THEN <<>> ELSE <<"getMessages", "getSummary">>
     IN /\ \E i \in 1..Len(awaits) : awaits[i] = failing
        /\ contextCache' = IF currentQuery = "" THEN LruGetCache(contextCache, key, clock)
                           ELSE contextCache
        /\ lastCall' = [op |-> "getContext", sessionId |-> sessionId,
                        failing |-> failing, awaits |-> awaits,
                        outcome |-> InOrder(awaits, failing)]
  /\ left' = [left EXCEPT !.calls = @ - 1]
  /\ UNCHANGED <<weaver, config, storage, tokenCache, semanticIndex, clock, nextId,
                 summarizerCalls, autoImportance, stamps, sessionFilter>>

\* SmartContextWeaver.pin, unpin or clear over a failing operation: the
\* context cache is invalidated after the await only
SmartUpdateFailing(op, sessionId, failing) ==
  /\ weaver = "smart"
  /\ left.calls > 0
  /\ LET awaits == IF op = "clear" THEN <<"clearSession">> ELSE <<"updateMessage">>
     IN /\ \E i \in 1..Len(awaits) : awaits[i] = failing
        /\ lastCall' = [op |-> op, sessionId |-> sessionId, failing |-> failing,
                        awaits |-> awaits, outcome |-> InOrder(awaits, failing)]
  /\ left' = [left EXCEPT !.calls = @ - 1]
  /\ UNCHANGED <<weaver, config, storage, tokenCache, contextCache, semanticIndex,
                 clock, nextId, summarizerCalls, autoImportance, stamps, sessionFilter>>

\* ContextWeaver.summarize up to the await that throws: done is what the
\* call does when nothing fails
CwSummarizeUntil(sessionId, done, awaits, failing) ==
  /\ \E i \in 1..Len(awaits) : awaits[i] = failing
  /\ storage' = IF Done(awaits, failing, "setSummary")
                THEN SummaryOnly(storage, done.storage, sessionId) ELSE storage
  /\ summarizerCalls' = summarizerCalls
                        + (IF Done(awaits, failing, "summarizer") \/ failing = "summarizer"
                           THEN 1 ELSE 0)
  /\ lastCall' = [op |-> "summarize", sessionId |-> sessionId, failing |-> failing,
                  awaits |-> awaits, outcome |-> InOrder(awaits, failing)]

\* the operations ContextWeaver.summarize awaits, given what it does when
\* none fails
CwSummarizeAwaits(st, sessionId, done, cfg) ==
  IF ~cfg.summarizer THEN <<>>
  ELSE <<"getMessages">> \o
       (IF done.called
        THEN <<"getSummary", "summarizer", "setSummary">> \o
             (IF Len(getMessages(done.storage, sessionId)) < Len(getMessages(st, sessionId))
              THEN <<"deleteMessage">> ELSE <<>>)
        ELSE <<>>)

\* ContextWeaver.summarize over a failing operation
CwSummarizeFailing(sessionId, keepRecent, failing) ==
  /\ weaver = "plain"
  /\ left.calls > 0
  /\ \E done \in {CwSummarizeStorage(storage, sessionId, keepRecent, config)} :
       CwSummarizeUntil(sessionId, done,
                        CwSummarizeAwaits(storage, sessionId, done, config), failing)
  /\ left' = [left EXCEPT !.calls = @ - 1]
  /\ UNCHANGED nextId
  /\ PlainUnchanged

FailingInit ==
  /\ weaver \in {"smart", "plain"}
  /\ config = IF weaver = "smart" THEN SmartConfig ELSE PlainConfig
  /\ \E history \in IF weaver = "smart" THEN SmartHistories ELSE PlainHistories :
       storage = StorageWith(history)
  /\ tokenCache = NewLRUCache(TokenCacheCapacity, TokenCacheTTL)
  /\ contextCache = NewLRUCache(ContextCacheCapacity, ContextCacheTTL)
  /\ semanticIndex = NewSemanticIndex
  /\ clock = 100
  /\ nextId = 100
  /\ summarizerCalls = 0
  /\ lastCall = [op |-> "new"]
  /\ autoImportance = NewAutoImportance(DEFAULT_RULES)
  /\ stamps = NoStamps
  /\ sessionFilter = NewBloomFilter(10000, "0.01")
  /\ left = [calls |-> MaxFailingCalls, add |-> MaxAdds, get |-> MaxGets,
             pin |-> MaxPins, unpin |-> MaxUnpins, clear |-> MaxClears,
             summarize |-> MaxSummarizes, tick |-> MaxTicks]

FailingNext ==
  \/ \E sessionId \in SessionIds, input \in AddInputs, failing \in Operations :
       SmartAddFailing(sessionId, input[1], input[2], input[3], failing)
  \/ \E sessionId \in SessionIds, input \in SmartGetInputs, failing \in Operations :
       SmartGetContextFailing(sessionId, input[1], input[3], failing)
  \/ \E op \in {"pin", "unpin", "clear"}, sessionId \in SessionIds,
        failing \in Operations :
       SmartUpdateFailing(op, sessionId, failing)
  \/ \E sessionId \in SessionIds, keepRecent \in KeepRecentInputs \cup {1},
        failing \in Operations :
       CwSummarizeFailing(sessionId, keepRecent, failing)
  \/ \E sessionId \in SessionIds, input \in AddInputs :
       SmartAdd(sessionId, input[1], input[2], input[3])
  \/ \E sessionId \in SessionIds, input \in SmartGetInputs :
       SmartGetContext(sessionId, input[1], input[2], input[3])
  \/ \E sessionId \in SessionIds, input \in AddInputs :
       CwAdd(sessionId, input[1], input[2], input[3])
  \/ \E sessionId \in SessionIds, keepRecent \in KeepRecentInputs \cup {1} :
       CwSummarize(sessionId, keepRecent)

FailingSpec == FailingInit /\ [][FailingNext]_vars

\* ------------------------------------------------------------ two add calls that overlap
\* Two add calls of a SmartContextWeaver on session "s1" are in flight
\* together.  A call gives way to the other at each of its awaits: a step
\* below is one storage or summarizer operation and the statements up to the
\* next await.  stamps holds, for each call, the await it stands at (pc) and
\* its local variables, and the ids stored when the calls began.

Calls == {"a", "b"}

\* the content of the messages the two calls add
RaceContents == {"hotels", "ok"}

\* the session before the calls
RaceHistories == {Bulk(15, 40), Bulk(16, 40)}

\* the locals of an add call that stands before its addMessage
NewCall(message) ==
  [pc |-> "addMessage", message |-> message, toSummarize |-> <<>>,
   remaining |-> <<>>, summary |-> Summarizer(<<>>), existingSummary |-> NoSummary]

RaceInit ==
  /\ weaver = "smart"
  /\ config = SmartConfig
  /\ \E history \in RaceHistories : storage = StorageWith(history)
  /\ tokenCache = NewLRUCache(TokenCacheCapacity, TokenCacheTTL)
  /\ contextCache = NewLRUCache(ContextCacheCapacity, ContextCacheTTL)
  /\ semanticIndex = NewSemanticIndex
  /\ clock = 100
  /\ nextId = 102
  /\ summarizerCalls = 0
  /\ lastCall = [op |-> "new"]
  /\ autoImportance = NewAutoImportance(DEFAULT_RULES)
  /\ sessionFilter = NewBloomFilter(10000, "0.01")
  /\ left = [calls |-> 0]
  /\ \E ca \in RaceContents, cb \in RaceContents :
       stamps = [a |-> NewCall(Message(100, "user", ca, clock, FALSE,
                                       quickImportanceCheck(ca))),
                 b |-> NewCall(Message(101, "user", cb, clock, FALSE,
                                       quickImportanceCheck(cb))),
                 began |-> {m.id : m \in {getMessages(storage, "s1")[i] :
                                            i \in 1..Len(getMessages(storage, "s1"))}}
                             \cup {100, 101}]

\* what the steps of the two calls leave alone
RaceUnchanged == UNCHANGED <<weaver, config, clock, nextId, autoImportance, left>>

\* add: await this.storage.addMessage, then the statements up to
\* maybeAutoSummarize's await of getMessages
RaceAddMessage(p) ==
  /\ stamps[p].pc = "addMessage"
  /\ storage' = addMessage(storage, "s1", stamps[p].message)
  /\ semanticIndex' = IndexAdd(semanticIndex, stamps[p].message)
  /\ sessionFilter' = BloomAdd(sessionFilter, "s1")
  /\ contextCache' = LruDelete(contextCache, cacheKey("s1", NoOption, config.tokenLimit))
  /\ stamps' = [stamps EXCEPT ![p].pc = "getMessages"]
  /\ lastCall' = [op |-> "addMessage", call |-> p]
  /\ UNCHANGED <<tokenCache, summarizerCalls>>
  /\ RaceUnchanged

\* maybeAutoSummarize: await this.storage.getMessages, then the statements
\* up to the await of the summarizer
RaceGetMessages(p) ==
  /\ stamps[p].pc = "getMessages"
  /\ \E total \in {totalTokens([sum |-> 0, cache |-> tokenCache],
                               getMessages(storage, "s1"), clock)} :
     \E toSummarize \in {SliceDropLast(sortByTimestamp(Unpinned(getMessages(storage, "s1"))),
                                       KeepLast)} :
       /\ tokenCache' = total.cache
       /\ stamps' = IF total.sum > config.tokenLimit * 2 /\ config.enableLocalSummary
                       /\ Len(toSummarize) > MinBatch
                    THEN [stamps EXCEPT ![p].pc = "summarizer",
                                        ![p].toSummarize = toSummarize]
                    ELSE [stamps EXCEPT ![p].pc = "done"]
  /\ lastCall' = [op |-> "getMessages", call |-> p]
  /\ UNCHANGED <<storage, semanticIndex, sessionFilter, contextCache, summarizerCalls>>
  /\ RaceUnchanged

\* maybeAutoSummarize: await this.summarizer(toSummarize)
RaceSummarizer(p) ==
  /\ stamps[p].pc = "summarizer"
  /\ stamps' = [stamps EXCEPT ![p].pc = "getSummary",
                              ![p].summary = Summarizer(stamps[p].toSummarize)]
  /\ summarizerCalls' = summarizerCalls + 1
  /\ lastCall' = [op |-> "summarizer", call |-> p]
  /\ UNCHANGED <<storage, tokenCache, semanticIndex, sessionFilter, contextCache>>
  /\ RaceUnchanged

\* maybeAutoSummarize: await this.storage.getSummary
RaceGetSummary(p) ==
  /\ stamps[p].pc = "getSummary"
  /\ stamps' = [stamps EXCEPT ![p].pc = "setSummary",
                              ![p].existingSummary = getSummary(storage, "s1")]
  /\ lastCall' = [op |-> "getSummary", call |-> p]
  /\ UNCHANGED <<storage, tokenCache, semanticIndex, sessionFilter, contextCache,
                 summarizerCalls>>
  /\ RaceUnchanged

\* maybeAutoSummarize: await this.storage.setSummary(sessionId, newSummary)
RaceSetSummary(p) ==
  /\ stamps[p].pc = "setSummary"
  /\ storage' = setSummary(storage, "s1",
                           IF stamps[p].existingSummary # NoSummary
                           THEN Append(stamps[p].existingSummary, stamps[p].summary)
                           ELSE <<stamps[p].summary>>)
  /\ stamps' = [stamps EXCEPT ![p].pc = "deleteMessage",
                              ![p].remaining = stamps[p].toSummarize]
  /\ lastCall' = [op |-> "setSummary", call |-> p]
  /\ UNCHANGED <<tokenCache, semanticIndex, sessionFilter, contextCache, summarizerCalls>>
  /\ RaceUnchanged

\* maybeAutoSummarize: one turn of the loop, await
\* this.storage.deleteMessage and this.semanticIndex.remove
RaceDeleteMessage(p) ==
  /\ stamps[p].pc = "deleteMessage"
  /\ storage' = deleteMessage(storage, "s1", Head(stamps[p].remaining).id)
  /\ semanticIndex' = IndexRemove(semanticIndex, Head(stamps[p].remaining).id)
  /\ stamps' = [stamps EXCEPT ![p].remaining = Tail(@),
                              ![p].pc = IF Len(stamps[p].remaining) = 1 THEN "done"
                                        ELSE "deleteMessage"]
  /\ lastCall' = [op |-> "deleteMessage", call |-> p]
  /\ UNCHANGED <<tokenCache, sessionFilter, contextCache, summarizerCalls>>
  /\ RaceUnchanged

RaceNext ==
  \E p \in Calls :
    \/ RaceAddMessage(p)
    \/ RaceGetMessages(p)
    \/ RaceSummarizer(p)
    \/ RaceGetSummary(p)
    \/ RaceSetSummary(p)
    \/ RaceDeleteMessage(p)

RaceSpec == RaceInit /\ [][RaceNext]_vars

\* ------------------------------------------------------------ components on their own
\* The specifications below drive one component directly, as its unit tests
\* do.  There is no weaver, and the variables of the weavers are left alone.

NoWeaver ==
  /\ weaver = "none"
  /\ config = PlainConfig
  /\ storage = NewStorage
  /\ tokenCache = NewLRUCache(TokenCacheCapacity, TokenCacheTTL)
  /\ contextCache = NewLRUCache(ContextCacheCapacity, ContextCacheTTL)
  /\ clock = 100
  /\ nextId = 100
  /\ summarizerCalls = 0
  /\ sessionFilter = NewBloomFilter(10000, "0.01")

weaverVars ==
  <<weaver, config, storage, tokenCache, contextCache, clock, nextId, summarizerCalls,
    sessionFilter>>

\* ------------------------------------------------------------ an AutoImportance

MaxRules == 2

MaxPatterns == 2

\* the rules a caller registers with addRule
CustomRules ==
  { Rule("vip", 95, "metadata"), Rule("everything", 150, "always"),
    Rule("noise", 20, "always"), Rule("from_user", 60, "users") }

PatternNames == {"p", "q"}

Patterns == {"hotels", "refund"}

\* calculateScore(message, index)
ScoreInputs ==
  { <<Message(1, "user", "ok", 1, FALSE, NoImportance), 0>>,
    <<Message(1, "user", "ok", 1, FALSE, NoImportance), 1>>,
    <<Message(1, "assistant", "nope no nice who", 1, FALSE, NoImportance), 1>>,
    <<Message(1, "user", "budget", 1, FALSE, NoImportance), 1>>,
    <<Message(1, "user", "personal", 1, FALSE, NoImportance), 1>>,
    <<Message(1, "system", "ok", 1, FALSE, NoImportance), 1>>,
    <<Message(1, "assistant", "long", 1, FALSE, NoImportance), 1>>,
    <<Message(1, "assistant", "hotels", 1, FALSE, NoImportance), 1>>,
    <<Message(1, "assistant", "ok", 1, TRUE, NoImportance), 1>>,
    <<Message(1, "assistant", "ok", 1, TRUE, 20), 1>>,
    <<Message(1, "user", "budget", 1, FALSE, 0), 1>> }

\* new AutoImportance() or new AutoImportance([])
ImportanceInit ==
  /\ NoWeaver
  /\ semanticIndex = NewSemanticIndex
  /\ stamps = NoStamps
  /\ autoImportance \in {NewAutoImportance(DEFAULT_RULES), NewAutoImportance(<<>>)}
  /\ lastCall = [op |-> "new"]
  /\ left = [rules |-> MaxRules, patterns |-> MaxPatterns]

AiAddRule(rule) ==
  /\ left.rules > 0
  /\ autoImportance' = addRule(autoImportance, rule)
  /\ lastCall' = [op |-> "addRule", rule |-> rule, fresh |-> TRUE,
                  before |-> autoImportance]
  /\ left' = [left EXCEPT !.rules = @ - 1]
  /\ UNCHANGED <<weaverVars, semanticIndex, stamps>>

AiAddPattern(name, pattern) ==
  /\ left.patterns > 0
  /\ autoImportance' = addPattern(autoImportance, name, pattern)
  /\ lastCall' = [op |-> "addPattern", name |-> name, pattern |-> pattern,
                  fresh |-> name \notin DOMAIN autoImportance.customPatterns,
                  before |-> autoImportance]
  /\ left' = [left EXCEPT !.patterns = @ - 1]
  /\ UNCHANGED <<weaverVars, semanticIndex, stamps>>

AiCalculateScore(message, index) ==
  /\ lastCall' = [op |-> "calculateScore", message |-> message, index |-> index,
                  result |-> calculateScore(autoImportance, message, index)]
  /\ UNCHANGED <<weaverVars, semanticIndex, stamps, autoImportance, left>>

ImportanceNext ==
  \/ \E rule \in CustomRules : AiAddRule(rule)
  \/ \E name \in PatternNames, pattern \in Patterns : AiAddPattern(name, pattern)
  \/ \E input \in ScoreInputs : AiCalculateScore(input[1], input[2])

ImportanceSpec == ImportanceInit /\ [][ImportanceNext]_vars

\* ------------------------------------------------------------ a SemanticIndex

MaxIndexCalls == 5

\* the messages given to add and findRelevant; two of them have the same id
IndexMessages ==
  { Message(1, "user", "hotels", 1, FALSE, NoImportance),
    Message(1, "user", "pref", 1, FALSE, NoImportance),
    Message(2, "assistant", "long", 2, FALSE, NoImportance),
    Message(3, "user", "pref", 3, FALSE, NoImportance) }

IndexIds == {m.id : m \in IndexMessages}

IndexQueries == {"Show me hotels", "the window seat"}

\* findRelevant(query, messages)
RelevantInputs ==
  { <<"Show me hotels", << Message(1, "user", "hotels", 1, FALSE, NoImportance),
                           Message(2, "assistant", "long", 2, FALSE, NoImportance) >> >>,
    <<"the window seat", << Message(3, "user", "pref", 3, FALSE, NoImportance),
                            Message(2, "assistant", "long", 2, FALSE, NoImportance) >> >> }

\* the call without the call before it
Flat(call) == [f \in DOMAIN call \ {"prior"} |-> call[f]]

\* new SemanticIndex()
IndexInit ==
  /\ NoWeaver
  /\ autoImportance = NewAutoImportance(DEFAULT_RULES)
  /\ semanticIndex = NewSemanticIndex
  /\ stamps = NoStamps
  /\ lastCall = [op |-> "new"]
  /\ left = [calls |-> MaxIndexCalls]

\* index.add(message)
IxAdd(message) ==
  /\ left.calls > 0
  /\ semanticIndex' = IndexAdd(semanticIndex, message)
  /\ stamps' = [mutations |-> stamps.mutations + 1,
                computed |-> MapSet(stamps.computed, message.id, stamps.mutations)]
  /\ lastCall' = [op |-> "add", message |-> message, before |-> semanticIndex,
                  prior |-> Flat(lastCall)]
  /\ left' = [left EXCEPT !.calls = @ - 1]
  /\ UNCHANGED <<weaverVars, autoImportance>>

\* index.remove(messageId)
IxRemove(id) ==
  /\ left.calls > 0
  /\ semanticIndex' = IndexRemove(semanticIndex, id)
  /\ stamps' = IF id \in DOMAIN semanticIndex.documents
               THEN [mutations |-> stamps.mutations + 1,
                     computed |-> MapDelete(stamps.computed, id)]
               ELSE stamps
  /\ lastCall' = [op |-> "remove", id |-> id,
                  result |-> id \in DOMAIN semanticIndex.documents,
                  before |-> semanticIndex, prior |-> Flat(lastCall)]
  /\ left' = [left EXCEPT !.calls = @ - 1]
  /\ UNCHANGED <<weaverVars, autoImportance>>

\* index.search(query)
IxSearch(query) ==
  /\ left.calls > 0
  /\ semanticIndex' = IndexSearchIndex(semanticIndex)
  /\ stamps' = IF IndexSearchIndex(semanticIndex) # semanticIndex
               THEN [stamps EXCEPT !.computed =
                       [d \in DOMAIN semanticIndex.documents |-> stamps.mutations]]
               ELSE stamps
  /\ lastCall' = [op |-> "search", query |-> query,
                  results |-> IndexSearchResults(semanticIndex, QueryTerms(query), 5, 100),
                  before |-> semanticIndex, prior |-> Flat(lastCall)]
  /\ left' = [left EXCEPT !.calls = @ - 1]
  /\ UNCHANGED <<weaverVars, autoImportance>>

\* index.findRelevant(query, messages)
IxFindRelevant(query, messages) ==
  /\ left.calls > 0
  /\ LET found == findRelevantOn(semanticIndex, QueryTerms(query), messages, 10)
     IN /\ semanticIndex' = found.index
        /\ lastCall' = [op |-> "findRelevant", query |-> query, messages |-> messages,
                        result |-> found.messages, before |-> semanticIndex,
                        prior |-> Flat(lastCall)]
  /\ left' = [left EXCEPT !.calls = @ - 1]
  /\ UNCHANGED <<weaverVars, autoImportance, stamps>>

IndexNext ==
  \/ \E message \in IndexMessages : IxAdd(message)
  \/ \E id \in IndexIds : IxRemove(id)
  \/ \E query \in IndexQueries : IxSearch(query)
  \/ \E input \in RelevantInputs : IxFindRelevant(input[1], input[2])

IndexSpec == IndexInit /\ [][IndexNext]_vars

\* ------------------------------------------------------------ a ConversationPairManager

MaxPairMessages == 4

\* the role and content of the messages given to buildPairs
PairTemplates ==
  { <<"user", "Hello">>, <<"user", "Give me 3 steps to learn it">>,
    <<"user", "What is TypeScript?">>, <<"user", "Explain what is TypeScript?">>,
    <<"assistant", "Hi there!">>,
    <<"assistant", "Step 1: Learn basics. Step 2: Practice. Step 3: Build projects.">>,
    <<"system", "You are a helpful assistant.">>, <<"tool", "42">> }

\* the message lists of up to MaxPairMessages messages, the i-th with id and
\* timestamp i
PairInputs ==
  UNION { { [i \in 1..n |-> Message(i, t[i][1], t[i][2], i, FALSE, NoImportance)] :
              t \in [1..n -> PairTemplates] } : n \in 0..MaxPairMessages }

\* new ConversationPairManager(), and the messages it will be given
PairInit ==
  /\ NoWeaver
  /\ autoImportance = NewAutoImportance(DEFAULT_RULES)
  /\ semanticIndex = NewSemanticIndex
  /\ stamps = NoStamps
  /\ \E messages \in PairInputs : lastCall = [op |-> "new", messages |-> messages]
  /\ left = [calls |-> 0]

\* pairManager.buildPairs(messages)
PmBuildPairs ==
  /\ lastCall.op = "new"
  /\ lastCall' = [op |-> "buildPairs", messages |-> lastCall.messages,
                  pairs |-> buildPairs(lastCall.messages)]
  /\ UNCHANGED <<weaverVars, autoImportance, semanticIndex, stamps, left>>

\* pairManager.pairsToMessages(pairs) of the pairs buildPairs returned
PmPairsToMessages ==
  /\ lastCall.op = "buildPairs"
  /\ lastCall' = [op |-> "pairsToMessages", messages |-> lastCall.messages,
                  pairs |-> lastCall.pairs, result |-> pairsToMessages(lastCall.pairs)]
  /\ UNCHANGED <<weaverVars, autoImportance, semanticIndex, stamps, left>>

\* the options given to selectPairs: maxPairs, maxTokens, currentQuery ("" is
\* none) and minRecentPairs
SelectInputs ==
  { <<20, 4000, "", 3>>, <<20, 25, "Give me 3 steps to learn it", 1>>,
    <<20, 4, "", 3>>, <<2, 4000, "", 1>>, <<20, 30, "Hello", 1>>,
    <<20, 4000, "Give me 3 steps to learn it", 0>>, <<20, 12, "", 1>> }

\* the minRecentPairs a strategy is made with (NoOption is none) and the
\* maxTokens and currentQuery given to its apply
ApplyInputs ==
  { <<NoOption, 4000, "">>, <<1, 25, "Give me 3 steps to learn it">>,
    <<1, 12, "">>, <<0, 10, "Hello">>, <<1, 4, "">> }

\* pairManager.selectPairs(pairs, options) of the pairs buildPairs returned
PmSelectPairs(input) ==
  /\ lastCall.op = "buildPairs"
  /\ LET options == [maxPairs |-> input[1], maxTokens |-> input[2],
                     currentQuery |-> input[3], minRecentPairs |-> input[4]]
     IN lastCall' = [op |-> "selectPairs", messages |-> lastCall.messages,
                     pairs |-> lastCall.pairs, options |-> options,
                     result |-> selectPairs(lastCall.pairs, options)]
  /\ UNCHANGED <<weaverVars, autoImportance, semanticIndex, stamps, left>>

\* new ConversationPairStrategy({ minRecentPairs }).apply(messages, options)
PmApply(input) ==
  /\ lastCall.op = "new"
  /\ LET strategy == NewStrategy(input[1])
     IN lastCall' = [op |-> "apply", messages |-> lastCall.messages,
                     strategy |-> strategy, maxTokens |-> input[2],
                     currentQuery |-> input[3],
                     selected |-> applySelected(strategy, lastCall.messages, input[2],
                                                input[3]),
                     result |-> apply(strategy, lastCall.messages, input[2], input[3])]
  /\ UNCHANGED <<weaverVars, autoImportance, semanticIndex, stamps, left>>

PairNext ==
  \/ PmBuildPairs
  \/ PmPairsToMessages
  \/ \E input \in SelectInputs : PmSelectPairs(input)
  \/ \E input \in ApplyInputs : PmApply(input)

PairSpec == PairInit /\ [][PairNext]_vars

\* ------------------------------------------------------------ an LRUCache
\* The cache is tokenCache and Date.now() is clock.  stamps holds the cached
\* keys in the order of their last use (a set, or a get that returned a
\* value), oldest first.

MaxCacheCalls == 5

MaxCacheTicks == 1

\* the capacity and defaultTTL (0 is none) a cache is made with
CacheConfigs == { <<1, 0>>, <<2, 10>>, <<3, 0>> }

CacheKeys == {"a", "b", "c", "d"}

\* the key, value and ttl (NoOption is none) given to set
SetInputs ==
  { <<"a", 1, NoOption>>, <<"b", 1, NoOption>>, <<"c", 1, NoOption>>,
    <<"d", 1, NoOption>>, <<"a", 2, 5>> }

\* the key, the value compute() returns and the ttl given to getOrCompute
ComputeInputs == { <<"a", 3, NoOption>>, <<"b", 3, 5>> }

\* new LRUCache(capacity, defaultTTL)
LruInit ==
  /\ weaver = "none"
  /\ config = PlainConfig
  /\ storage = NewStorage
  /\ \E cfg \in CacheConfigs : tokenCache = NewLRUCache(cfg[1], cfg[2])
  /\ contextCache = NewLRUCache(ContextCacheCapacity, ContextCacheTTL)
  /\ clock = 100
  /\ nextId = 100
  /\ summarizerCalls = 0
  /\ autoImportance = NewAutoImportance(DEFAULT_RULES)
  /\ semanticIndex = NewSemanticIndex
  /\ stamps = [uses |-> <<>>]
  /\ sessionFilter = NewBloomFilter(10000, "0.01")
  /\ lastCall = [op |-> "new"]
  /\ left = [calls |-> MaxCacheCalls, ticks |-> MaxCacheTicks]

\* the order of last use after a call: key k was used when used holds, and
\* the keys the cache no longer holds are gone
UsesAfter(uses, k, used, cache) ==
  SelectIdx(IF used THEN removeNode(uses, k) \o <<k>> ELSE uses,
            LAMBDA x : x \in DOMAIN cache.node)

LruUnchanged ==
  UNCHANGED <<weaver, config, storage, contextCache, nextId, summarizerCalls,
              autoImportance, semanticIndex, sessionFilter>>

\* cache.set(key, value, ttl)
LcSet(input) ==
  /\ left.calls > 0
  /\ tokenCache' = LruSet(tokenCache, input[1], input[2], input[3], clock)
  /\ stamps' = [uses |-> UsesAfter(stamps.uses, input[1], TRUE, tokenCache')]
  /\ lastCall' = [op |-> "set", key |-> input[1], before |-> tokenCache,
                  uses |-> stamps.uses, time |-> clock, result |-> NoOption,
                  hit |-> FALSE, computed |-> FALSE]
  /\ left' = [left EXCEPT !.calls = @ - 1]
  /\ UNCHANGED clock
  /\ LruUnchanged

\* cache.get(key)
LcGet(key) ==
  /\ left.calls > 0
  /\ tokenCache' = LruGetCache(tokenCache, key, clock)
  /\ stamps' = [uses |-> UsesAfter(stamps.uses, key, LruHit(tokenCache, key, clock),
                                    tokenCache')]
  /\ lastCall' = [op |-> "get", key |-> key, before |-> tokenCache,
                  uses |-> stamps.uses, time |-> clock,
                  result |-> IF LruHit(tokenCache, key, clock)
                             THEN LruGetValue(tokenCache, key) ELSE NoOption,
                  hit |-> LruHit(tokenCache, key, clock), computed |-> FALSE]
  /\ left' = [left EXCEPT !.calls = @ - 1]
  /\ UNCHANGED clock
  /\ LruUnchanged

\* cache.has(key)
LcHas(key) ==
  /\ left.calls > 0
  /\ tokenCache' = LruHasCache(tokenCache, key, clock)
  /\ stamps' = [uses |-> UsesAfter(stamps.uses, key, FALSE, tokenCache')]
  /\ lastCall' = [op |-> "has", key |-> key, before |-> tokenCache,
                  uses |-> stamps.uses, time |-> clock, result |-> NoOption,
                  hit |-> LruHit(tokenCache, key, clock), computed |-> FALSE]
  /\ left' = [left EXCEPT !.calls = @ - 1]
  /\ UNCHANGED clock
  /\ LruUnchanged

\* cache.delete(key)
LcDelete(key) ==
  /\ left.calls > 0
  /\ tokenCache' = LruDelete(tokenCache, key)
  /\ stamps' = [uses |-> UsesAfter(stamps.uses, key, FALSE, tokenCache')]
  /\ lastCall' = [op |-> "delete", key |-> key, before |-> tokenCache,
                  uses |-> stamps.uses, time |-> clock, result |-> NoOption,
                  hit |-> key \in DOMAIN tokenCache.node, computed |-> FALSE]
  /\ left' = [left EXCEPT !.calls = @ - 1]
  /\ UNCHANGED clock
  /\ LruUnchanged

\* cache.getOrCompute(key, compute, ttl), compute returning input[2]
LcGetOrCompute(input) ==
  /\ left.calls > 0
  /\ tokenCache' = LruGetOrComputeCache(tokenCache, input[1], input[2], input[3], clock)
  /\ stamps' = [uses |-> UsesAfter(stamps.uses, input[1], TRUE, tokenCache')]
  /\ lastCall' = [op |-> "getOrCompute", key |-> input[1], value |-> input[2],
                  before |-> tokenCache,
                  uses |-> stamps.uses, time |-> clock,
                  result |-> LruGetOrComputeValue(tokenCache, input[1], input[2], clock),
                  hit |-> LruHit(tokenCache, input[1], clock),
                  computed |-> ~LruHit(tokenCache, input[1], clock)]
  /\ left' = [left EXCEPT !.calls = @ - 1]
  /\ UNCHANGED clock
  /\ LruUnchanged

\* cache.clear()
LcClear ==
  /\ left.calls > 0
  /\ tokenCache' = LruClear(tokenCache)
  /\ stamps' = [uses |-> <<>>]
  /\ lastCall' = [op |-> "clear", key |-> "", before |-> tokenCache,
                  uses |-> stamps.uses, time |-> clock, result |-> NoOption,
                  hit |-> FALSE, computed |-> FALSE]
  /\ left' = [left EXCEPT !.calls = @ - 1]
  /\ UNCHANGED clock
  /\ LruUnchanged

\* ten milliseconds pass
LcTick ==
  /\ left.ticks > 0
  /\ clock' = clock + 10
  /\ left' = [left EXCEPT !.ticks = @ - 1]
  /\ UNCHANGED <<tokenCache, stamps, lastCall>>
  /\ LruUnchanged

LruNext ==
  \/ \E input \in SetInputs : LcSet(input)
  \/ \E key \in CacheKeys : LcGet(key)
  \/ \E key \in {"a", "b"} : LcHas(key)
  \/ LcDelete("a")
  \/ \E input \in ComputeInputs : LcGetOrCompute(input)
  \/ LcClear
  \/ LcTick

LruSpec == LruInit /\ [][LruNext]_vars

\* ------------------------------------------------------------ the recency list of an LRUCache
\* The cache with its nodes and pointers: [capacity, defaultTTL, head, tail,
\* cache, nodes].  nodes holds every CacheNode the cache ever made, in the
\* order of their making, as [key, value, prev, next, timestamp, ttl]; a node
\* is named by its place in nodes and null is 0.  cache maps a key to its
\* node.  In ListSpec the cache is tokenCache, contextCache is the same cache
\* as a list of keys, and stamps holds the keys in the order of their last use.

MaxListCalls == 5

MaxListTicks == 1

\* new LRUCache(capacity, defaultTTL)
NewList(capacity, defaultTTL) ==
  [capacity |-> capacity, defaultTTL |-> defaultTTL, head |-> 0, tail |-> 0,
   cache |-> EmptyMap, nodes |-> <<>>]

\* a removeNode that leaves the prev pointer of the next node as it is
ListRemoveNode_nextOnly(c, n) ==
  LET d == IF c.nodes[n].prev # 0
           THEN [c EXCEPT !.nodes[c.nodes[n].prev].next = c.nodes[n].next]
           ELSE [c EXCEPT !.head = c.nodes[n].next]
  IN IF d.nodes[n].next # 0 THEN d ELSE [d EXCEPT !.tail = d.nodes[n].prev]

\* removeNode
ListRemoveNode(c, n) ==
  LET d == IF c.nodes[n].prev # 0
           THEN [c EXCEPT !.nodes[c.nodes[n].prev].next = c.nodes[n].next]
           ELSE [c EXCEPT !.head = c.nodes[n].next]
  IN IF d.nodes[n].next # 0
     THEN [d EXCEPT !.nodes[d.nodes[n].next].prev = d.nodes[n].prev]
     ELSE [d EXCEPT !.tail = d.nodes[n].prev]

\* moveToFront
ListMoveToFront(c, n) ==
  IF n = c.head THEN c
  ELSE LET r == ListRemoveNode(c, n)
           a == [r EXCEPT !.nodes[n].prev = 0, !.nodes[n].next = r.head]
           b == IF a.head # 0 THEN [a EXCEPT !.nodes[a.head].prev = n] ELSE a
           d == [b EXCEPT !.head = n]
       IN IF d.tail = 0 THEN [d EXCEPT !.tail = n] ELSE d

\* this.cache.delete(key)
ListCacheDelete(c, k) ==
  [c EXCEPT !.cache = [x \in DOMAIN c.cache \ {k} |-> c.cache[x]]]

\* evictLRU
ListEvictLRU(c) ==
  IF c.tail = 0 THEN c
  ELSE ListRemoveNode(ListCacheDelete(c, c.nodes[c.tail].key), c.tail)

\* LRUCache.delete
ListDelete(c, k) ==
  IF k \notin DOMAIN c.cache THEN c
  ELSE ListCacheDelete(ListRemoveNode(c, c.cache[k]), k)

\* LRUCache.get returns a value (not undefined)
ListHit(c, k, time) ==
  k \in DOMAIN c.cache /\ ~LruExpired(c.nodes[c.cache[k]], time)

\* LRUCache.get: the cache after the call
ListGet(c, k, time) ==
  IF k \notin DOMAIN c.cache THEN c
  ELSE IF LruExpired(c.nodes[c.cache[k]], time) THEN ListDelete(c, k)
  ELSE ListMoveToFront(c, c.cache[k])

\* LRUCache.has: the cache after the call
ListHas(c, k, time) ==
  IF k \in DOMAIN c.cache /\ LruExpired(c.nodes[c.cache[k]], time)
  THEN ListDelete(c, k) ELSE c

\* LRUCache.set
ListSet(c, k, v, ttl, time) ==
  LET given == IF ttl = NoOption THEN c.defaultTTL ELSE ttl
  IN IF k \in DOMAIN c.cache
     THEN ListMoveToFront([c EXCEPT !.nodes[c.cache[k]].value = v,
                                    !.nodes[c.cache[k]].timestamp = time,
                                    !.nodes[c.cache[k]].ttl = given],
                          c.cache[k])
     ELSE LET d == IF Cardinality(DOMAIN c.cache) >= c.capacity
                   THEN ListEvictLRU(c) ELSE c
              n == Len(d.nodes) + 1
              newNode == [key |-> k, value |-> v, prev |-> 0, next |-> d.head,
                          timestamp |-> time, ttl |-> given]
              a == [d EXCEPT !.nodes = Append(d.nodes, newNode)]
              b == IF a.head # 0 THEN [a EXCEPT !.nodes[a.head].prev = n] ELSE a
              e == [b EXCEPT !.head = n]
              f == IF e.tail = 0 THEN [e EXCEPT !.tail = n] ELSE e
          IN [f EXCEPT !.cache = [x \in DOMAIN f.cache \cup {k} |->
                                    IF x = k THEN n ELSE f.cache[x]]]

\* LRUCache.getOrCompute: the cache after the call, v being what compute()
\* yields
ListGetOrCompute(c, k, v, ttl, time) ==
  IF ListHit(c, k, time) THEN ListGet(c, k, time)
  ELSE ListSet(ListGet(c, k, time), k, v, ttl, time)

\* LRUCache.clear
ListClear(c) == [c EXCEPT !.cache = EmptyMap, !.head = 0, !.tail = 0]

\* the key, value and ttl (NoOption is none) given to set and getOrCompute
ListInputs ==
  { <<"a", 1, NoOption>>, <<"b", 1, NoOption>>, <<"c", 1, NoOption>>, <<"a", 2, 5>> }

ListInit ==
  /\ weaver = "none"
  /\ config = PlainConfig
  /\ storage = NewStorage
  /\ \E cfg \in CacheConfigs :
       /\ tokenCache = NewList(cfg[1], cfg[2])
       /\ contextCache = NewLRUCache(cfg[1], cfg[2])
  /\ clock = 100
  /\ nextId = 100
  /\ summarizerCalls = 0
  /\ autoImportance = NewAutoImportance(DEFAULT_RULES)
  /\ semanticIndex = NewSemanticIndex
  /\ stamps = [uses |-> <<>>]
  /\ sessionFilter = NewBloomFilter(10000, "0.01")
  /\ lastCall = [op |-> "new"]
  /\ left = [calls |-> MaxListCalls, ticks |-> MaxListTicks]

ListUnchanged ==
  UNCHANGED <<weaver, config, storage, nextId, summarizerCalls, autoImportance,
              semanticIndex, sessionFilter>>

\* what every call of ListSpec does besides changing the cache
ListCalled(op, k, used) ==
  /\ left.calls > 0
  /\ stamps' = [uses |-> UsesAfter(stamps.uses, k, used, contextCache')]
  /\ lastCall' = [op |-> op, key |-> k, before |-> tokenCache]
  /\ left' = [left EXCEPT !.calls = @ - 1]
  /\ UNCHANGED clock
  /\ ListUnchanged

\* cache.set(key, value, ttl)
ListCallSet(input) ==
  /\ tokenCache' = ListSet(tokenCache, input[1], input[2], input[3], clock)
  /\ contextCache' = LruSet(contextCache, input[1], input[2], input[3], clock)
  /\ ListCalled("set", input[1], TRUE)

\* cache.get(key)
ListCallGet(key) ==
  /\ tokenCache' = ListGet(tokenCache, key, clock)
  /\ contextCache' = LruGetCache(contextCache, key, clock)
  /\ ListCalled("get", key, ListHit(tokenCache, key, clock))

\* cache.has(key)
ListCallHas(key) ==
  /\ tokenCache' = ListHas(tokenCache, key, clock)
  /\ contextCache' = LruHasCache(contextCache, key, clock)
  /\ ListCalled("has", key, FALSE)

\* cache.delete(key)
ListCallDelete(key) ==
  /\ tokenCache' = ListDelete(tokenCache, key)
  /\ contextCache' = LruDelete(contextCache, key)
  /\ ListCalled("delete", key, FALSE)

\* cache.getOrCompute(key, compute, ttl), compute returning input[2]
ListCallGetOrCompute(input) ==
  /\ tokenCache' = ListGetOrCompute(tokenCache, input[1], input[2], input[3], clock)
  /\ contextCache' = LruGetOrComputeCache(contextCache, input[1], input[2], input[3], clock)
  /\ ListCalled("getOrCompute", input[1], TRUE)

\* cache.clear()
ListCallClear ==
  /\ tokenCache' = ListClear(tokenCache)
  /\ contextCache' = LruClear(contextCache)
  /\ ListCalled("clear", "", FALSE)

\* ten milliseconds pass
ListTick ==
  /\ left.ticks > 0
  /\ clock' = clock + 10
  /\ left' = [left EXCEPT !.ticks = @ - 1]
  /\ UNCHANGED <<tokenCache, contextCache, stamps, lastCall>>
  /\ ListUnchanged

ListNext ==
  \/ \E input \in ListInputs : ListCallSet(input)
  \/ \E key \in {"a", "b", "c"} : ListCallGet(key)
  \/ \E key \in {"a", "b"} : ListCallHas(key)
  \/ \E key \in {"a", "b"} : ListCallDelete(key)
  \/ \E input \in ListInputs : ListCallGetOrCompute(input)
  \/ ListCallClear
  \/ ListTick

ListSpec == ListInit /\ [][ListNext]_vars

\* ------------------------------------------------------------ getOrComputeAsync calls that overlap
\* Two getOrComputeAsync calls on the cache tokenCache are in flight
\* together; no time passes.  stamps holds, for each call, where it stands
\* (pc), its key and what it returned, and how many times compute was
\* invoked for each key.

\* the keys of the two calls
AsyncKeys == {"a", "b"}

\* the values a compute() resolves with
AsyncValues == {1, 2}

\* what the cache holds before the calls: nothing, or key "b"
AsyncCaches(cfg) ==
  {NewLRUCache(cfg[1], cfg[2]), LruSet(NewLRUCache(cfg[1], cfg[2]), "b", 1, NoOption, 100)}

AsyncInit ==
  /\ weaver = "none"
  /\ config = PlainConfig
  /\ storage = NewStorage
  /\ \E cfg \in CacheConfigs : tokenCache \in AsyncCaches(cfg)
  /\ contextCache = NewLRUCache(ContextCacheCapacity, ContextCacheTTL)
  /\ clock = 100
  /\ nextId = 100
  /\ summarizerCalls = 0
  /\ autoImportance = NewAutoImportance(DEFAULT_RULES)
  /\ semanticIndex = NewSemanticIndex
  /\ sessionFilter = NewBloomFilter(10000, "0.01")
  /\ lastCall = [op |-> "new"]
  /\ left = [calls |-> 0]
  /\ \E ka \in AsyncKeys, kb \in AsyncKeys :
       stamps = [a |-> [pc |-> "get", key |-> ka, result |-> NoOption],
                 b |-> [pc |-> "get", key |-> kb, result |-> NoOption],
                 computes |-> [k \in AsyncKeys |-> 0]]

\* getOrComputeAsync up to its await: this.get(key), and compute() invoked
\* on a miss
AsyncGet(p) ==
  /\ stamps[p].pc = "get"
  /\ tokenCache' = LruGetCache(tokenCache, stamps[p].key, clock)
  /\ stamps' = IF LruHit(tokenCache, stamps[p].key, clock)
               THEN [stamps EXCEPT ![p].pc = "returned",
                                   ![p].result = LruGetValue(tokenCache, stamps[p].key)]
               ELSE [stamps EXCEPT ![p].pc = "await",
                                   !.computes[stamps[p].key] = @ + 1]
  /\ lastCall' = [op |-> "get", call |-> p]
  /\ UNCHANGED clock
  /\ LruUnchanged
  /\ UNCHANGED left

\* getOrComputeAsync after its await: compute() has resolved with value,
\* which is set and returned
AsyncSet(p, value) ==
  /\ stamps[p].pc = "await"
  /\ tokenCache' = LruSet(tokenCache, stamps[p].key, value, NoOption, clock)
  /\ stamps' = [stamps EXCEPT ![p].pc = "returned", ![p].result = value]
  /\ lastCall' = [op |-> "set", call |-> p]
  /\ UNCHANGED clock
  /\ LruUnchanged
  /\ UNCHANGED left

AsyncNext ==
  \/ \E p \in Calls : AsyncGet(p)
  \/ \E p \in Calls, value \in AsyncValues : AsyncSet(p, value)

AsyncSpec == AsyncInit /\ [][AsyncNext]_vars

\* ------------------------------------------------------------ a BloomFilter, a CountingBloomFilter
\* The filter is sessionFilter.  stamps counts, for each item, the add and
\* the remove calls made since the filter was made or last cleared.

MaxFilterCalls == 4

FilterItems == {"a", "c", "y"}

\* the expectedItems and falsePositiveRate a filter is made with
FilterConfigs == { <<1, "0.5">>, <<2, "0.1">> }

NoCalls == [adds |-> [x \in FilterItems |-> 0], removes |-> [x \in FilterItems |-> 0]]

IsCounting(f) == "counts" \in DOMAIN f

\* new BloomFilter(n, p) or new CountingBloomFilter(n, p)
BloomInit ==
  /\ weaver = "none"
  /\ config = PlainConfig
  /\ storage = NewStorage
  /\ tokenCache = NewLRUCache(TokenCacheCapacity, TokenCacheTTL)
  /\ contextCache = NewLRUCache(ContextCacheCapacity, ContextCacheTTL)
  /\ clock = 100
  /\ nextId = 100
  /\ summarizerCalls = 0
  /\ autoImportance = NewAutoImportance(DEFAULT_RULES)
  /\ semanticIndex = NewSemanticIndex
  /\ stamps = NoCalls
  /\ \E cfg \in FilterConfigs :
       sessionFilter \in {NewBloomFilter(cfg[1], cfg[2]),
                          NewCountingBloomFilter(cfg[1], cfg[2])}
  /\ lastCall = [op |-> "new"]
  /\ left = [calls |-> MaxFilterCalls]

BloomUnchanged ==
  UNCHANGED <<weaver, config, storage, tokenCache, contextCache, clock, nextId,
              summarizerCalls, autoImportance, semanticIndex>>

\* filter.add(item)
BfAdd(item) ==
  /\ left.calls > 0
  /\ sessionFilter' = IF IsCounting(sessionFilter) THEN CountingAdd(sessionFilter, item)
                      ELSE BloomAdd(sessionFilter, item)
  /\ stamps' = [stamps EXCEPT !.adds[item] = @ + 1]
  /\ lastCall' = [op |-> "add", item |-> item, result |-> FALSE,
                  before |-> sessionFilter, calls |-> stamps]
  /\ left' = [left EXCEPT !.calls = @ - 1]
  /\ BloomUnchanged

\* countingFilter.remove(item)
BfRemove(item) ==
  /\ left.calls > 0
  /\ IsCounting(sessionFilter)
  /\ sessionFilter' = CountingRemove(sessionFilter, item)
  /\ stamps' = [stamps EXCEPT !.removes[item] = @ + 1]
  /\ lastCall' = [op |-> "remove", item |-> item, result |-> FALSE,
                  before |-> sessionFilter, calls |-> stamps]
  /\ left' = [left EXCEPT !.calls = @ - 1]
  /\ BloomUnchanged

\* filter.mightContain(item)
BfMightContain(item) ==
  /\ left.calls > 0
  /\ lastCall' = [op |-> "mightContain", item |-> item,
                  result |-> IF IsCounting(sessionFilter)
                             THEN CountingMightContain(sessionFilter, item)
                             ELSE BloomMightContain(sessionFilter, item),
                  before |-> sessionFilter, calls |-> stamps]
  /\ left' = [left EXCEPT !.calls = @ - 1]
  /\ UNCHANGED <<sessionFilter, stamps>>
  /\ BloomUnchanged

\* filter.clear()
BfClear ==
  /\ left.calls > 0
  /\ sessionFilter' = IF IsCounting(sessionFilter) THEN CountingClear(sessionFilter)
                      ELSE BloomClear(sessionFilter)
  /\ stamps' = NoCalls
  /\ lastCall' = [op |-> "clear", item |-> "", result |-> FALSE,
                  before |-> sessionFilter, calls |-> stamps]
  /\ left' = [left EXCEPT !.calls = @ - 1]
  /\ BloomUnchanged

BloomNext ==
  \/ \E item \in FilterItems : BfAdd(item)
  \/ \E item \in FilterItems : BfRemove(item)
  \/ \E item \in FilterItems : BfMightContain(item)
  \/ BfClear

BloomSpec == BloomInit /\ [][BloomNext]_vars

\* ------------------------------------------------------------ properties

\* the last call was a getContext
Returned == lastCall.op = "getContext"

\* the messages of the session of the last call, and its summary
Stored == getMessages(storage, lastCall.sessionId)

StoredSummary == getSummary(storage, lastCall.sessionId)

\* the elements of the last result that came from the given step
EntriesOf(kind) == SelectIdx(lastCall.result.messages, LAMBDA e : e.kind = kind)

\* C1: every getContext result, of either weaver, has tokenCount <= maxTokens,
\* for every maxTokens >= 0, with or without a summary or pinned messages.
C1_TokenCountWithinBudget ==
  Returned => lastCall.result.tokenCount <= lastCall.maxTokens

\* a result with the summary and a pinned message in it, and a stored message
\* left out for lack of budget
C1_Witness ==
  /\ Returned
  /\ lastCall.result.wasSummarized
  /\ EntriesOf("pinned") # <<>>
  /\ Len(EntriesOf("pinned")) + Len(EntriesOf("regular")) < Len(Stored)
  /\ lastCall.result.tokenCount <= lastCall.maxTokens

\* C2: SmartContextWeaver.getContext includes every pinned message whose own
\* cost, counter(content) + 4, is at most maxTokens, whatever else is stored.
C2_EveryFittingPinIncluded ==
  (Returned /\ weaver = "smart") =>
    \A i \in 1..Len(Stored) :
      (Stored[i].pinned /\ countMessageTokens(Stored[i].content) <= lastCall.maxTokens)
        => \E j \in 1..Len(lastCall.result.messages) :
             /\ lastCall.result.messages[j].kind = "pinned"
             /\ lastCall.result.messages[j].id = Stored[i].id

\* C3: in every getContext result pinnedCount is the number of pinned
\* messages present in the returned list.
C3_PinnedCountIsPresent ==
  Returned => lastCall.result.pinnedCount = Len(EntriesOf("pinned"))

\* the cost of the summary message of the session of the last call
SummaryMessageTokens ==
  IF weaver = "smart"
  THEN countInfoTokens(PrefixedInfo(18, 2, SummaryInfo(StoredSummary)))
  ELSE countInfoTokens(PrefixedInfo(31, 3, SummaryInfo(StoredSummary)))

\* C4: when a summary is stored, getContext (includeSummary left at its
\* default) returns it first, as a system message, with wasSummarized true,
\* exactly when its cost is at most maxTokens; otherwise the result holds no
\* summary message and wasSummarized is false.
C4_SummaryFirstIffFits ==
  (/\ Returned
   /\ StoredSummary # NoSummary
   /\ weaver = "plain" => lastCall.includeSummary) =>
    IF SummaryMessageTokens <= lastCall.maxTokens
    THEN /\ lastCall.result.wasSummarized
         /\ Len(EntriesOf("summary")) = 1
         /\ lastCall.result.messages[1].kind = "summary"
         /\ lastCall.result.messages[1].role = "system"
    ELSE /\ ~lastCall.result.wasSummarized
         /\ EntriesOf("summary") = <<>>

\* C5: the unpinned messages of a SmartContextWeaver.getContext result are in
\* non-decreasing order of their original timestamps.
C5_UnpinnedInTimestampOrder ==
  (Returned /\ weaver = "smart") =>
    LET regular == EntriesOf("regular")
    IN \A i, j \in 1..Len(regular) :
         i < j => regular[i].timestamp <= regular[j].timestamp

\* the last call was an add of a SmartContextWeaver
SmartAdded == lastCall.op = "add" /\ weaver = "smart"

\* the unpinned messages add() had stored before it looked at the total,
\* oldest first
StoredUnpinned == sortByTimestamp(SelectIdx(lastCall.stored, LAMBDA m : ~m.pinned))

\* the unpinned messages in storage now, oldest first
LiveUnpinned == sortByTimestamp(SelectIdx(Stored, LAMBDA m : ~m.pinned))

RECURSIVE ContentTokens(_)
ContentTokens(messages) ==
  IF messages = <<>> THEN 0
  ELSE defaultTokenCounter(Head(messages).content) + ContentTokens(Tail(messages))

\* C6 as stated: when add() returns and the estimated tokens of the unpinned
\* messages exceeded 2 x tokenLimit, at most the 10 most recent unpinned
\* messages remain.
C6_AtMostTenRemain ==
  (SmartAdded /\ ContentTokens(StoredUnpinned) > 2 * config.tokenLimit) =>
    /\ Len(LiveUnpinned) <= 10
    /\ LiveUnpinned = SubSeq(StoredUnpinned, Len(StoredUnpinned) - Len(LiveUnpinned) + 1,
                             Len(StoredUnpinned))

\* C6, amended: when add() returns, if the token counts it summed over all the
\* messages of the session exceeded 2 x tokenLimit and more than 15 unpinned
\* messages were stored, exactly the 10 most recent unpinned messages remain
\* and the older ones are summarized onto the prior summary; in every other
\* case add() has summarized and deleted nothing.
C6_OlderSummarizedBeyondFifteen ==
  SmartAdded =>
    LET n == Len(StoredUnpinned)
    IN IF lastCall.totalTokens > 2 * config.tokenLimit /\ config.enableLocalSummary
          /\ n > 15
       THEN /\ LiveUnpinned = SubSeq(StoredUnpinned, n - 9, n)
            /\ Len(Stored) = Len(lastCall.stored) - (n - 10)
            /\ Len(StoredSummary) = Len(lastCall.priorSummary) + 1
            /\ SubSeq(StoredSummary, 1, Len(lastCall.priorSummary)) = lastCall.priorSummary
            /\ StoredSummary[Len(StoredSummary)].of =
                 [i \in 1..(n - 10) |-> StoredUnpinned[i].id]
       ELSE /\ Stored = lastCall.stored
            /\ StoredSummary = lastCall.priorSummary

\* an add() that found sixteen unpinned messages and summarized the six oldest
C6_Witness ==
  /\ SmartAdded
  /\ lastCall.summarized
  /\ Len(StoredUnpinned) > 15
  /\ Len(LiveUnpinned) = 10

\* C7: getContext leaves the stored messages and the stored summary as they
\* are and never calls the summarizer; the summarizer is called by add() and
\* summarize() only.
C7_GetContextReadOnly ==
  [][/\ lastCall'.op = "getContext" =>
          (storage' = storage /\ summarizerCalls' = summarizerCalls)
     /\ summarizerCalls' # summarizerCalls =>
          lastCall'.op \in {"add", "summarize"}]_vars

\* a getContext on a session that has a summary and ten or more messages
C7_Witness ==
  /\ Returned
  /\ StoredSummary # NoSummary
  /\ Len(Stored) >= 10
  /\ summarizerCalls > 0

\* C8: no call but clear() of its session takes a pinned message out of
\* storage; summarization, automatic or asked for, deletes none.
C8_PinnedLeaveOnlyByClear ==
  [][\A s \in SessionIds : \A i \in 1..Len(getMessages(storage, s)) :
       getMessages(storage, s)[i].pinned =>
         \/ lastCall'.op = "clear" /\ lastCall'.sessionId = s
         \/ \E j \in 1..Len(getMessages(storage', s)) :
              getMessages(storage', s)[j].id = getMessages(storage, s)[i].id]_vars

\* a summarization that deleted messages of a session holding a pinned one
C8_Witness ==
  /\ lastCall.op = "add"
  /\ lastCall.summarized
  /\ Len(Stored) < Len(lastCall.stored)
  /\ \E i \in 1..Len(lastCall.stored) :
       /\ lastCall.stored[i].pinned
       /\ \E j \in 1..Len(Stored) : Stored[j] = lastCall.stored[i]

\* the score C9 gives a returned unpinned message: its importance, with 0.3
\* added (up to 1.0) when a currentQuery was given and the message is among
\* the five most relevant to it
ClaimedScore(id) ==
  LET message == Stored[FindIndex(Stored, LAMBDA m : m.id = id)]
  IN IF lastCall.currentQuery # ""
        /\ id \in findRelevant(QueryTerms(lastCall.currentQuery), Stored, 5)
     THEN Min(100, message.importance + 30)
     ELSE message.importance

\* C9: SmartContextWeaver.getContext returns an unpinned message only if its
\* score is at least importanceThreshold.
C9_ReturnedMeetThreshold ==
  (Returned /\ weaver = "smart") =>
    \A j \in 1..Len(lastCall.result.messages) :
      LET e == lastCall.result.messages[j]
      IN (e.kind = "regular" /\ \E i \in 1..Len(Stored) : Stored[i].id = e.id)
           => ClaimedScore(e.id) >= lastCall.importanceThreshold

\* the last call was a getContext of a SmartContextWeaver that built its result
Built == Returned /\ weaver = "smart" /\ ~lastCall.cached

\* C10 as stated: of every two survivors the one with the higher score is
\* considered first when the scores differ by more than 0.1, the one with the
\* later timestamp when they differ by 0.1 or less.
C10_PairwiseOrder ==
  Built =>
    \A i, j \in 1..Len(lastCall.sortedRegular) :
      i < j =>
        LET a == lastCall.sortedRegular[i]
            b == lastCall.sortedRegular[j]
        IN IF Abs(a.score - b.score) > 10 THEN a.score > b.score
           ELSE a.message.timestamp >= b.message.timestamp

\* C10, amended: when the comparator is consistent on the survivors, of every
\* two the one with the higher score is considered first when Math.abs of the
\* difference, computed in floating point, exceeds 0.1, and the one with the
\* later timestamp otherwise.
C10_OrderWhenConsistent ==
  (Built /\ ConsistentOn(lastCall.sortedRegular)) =>
    \A i, j \in 1..Len(lastCall.sortedRegular) :
      i < j =>
        LET a == lastCall.sortedRegular[i]
            b == lastCall.sortedRegular[j]
        IN IF AbsDiffExceedsTenth(a.score, b.score) THEN a.score > b.score
           ELSE a.message.timestamp >= b.message.timestamp

\* three survivors, two of them a near tie the later of which goes first, the
\* third behind them for its score
C10_Witness ==
  /\ Built
  /\ ConsistentOn(lastCall.sortedRegular)
  /\ Len(lastCall.sortedRegular) >= 3
  /\ \E i, j \in 1..Len(lastCall.sortedRegular) :
       /\ i < j
       /\ ~AbsDiffExceedsTenth(lastCall.sortedRegular[i].score,
                               lastCall.sortedRegular[j].score)
       /\ lastCall.sortedRegular[i].score < lastCall.sortedRegular[j].score
       /\ lastCall.sortedRegular[i].message.timestamp
            > lastCall.sortedRegular[j].message.timestamp
  /\ \E i, j \in 1..Len(lastCall.sortedRegular) :
       /\ i < j
       /\ AbsDiffExceedsTenth(lastCall.sortedRegular[i].score,
                              lastCall.sortedRegular[j].score)
       /\ lastCall.sortedRegular[i].message.timestamp
            < lastCall.sortedRegular[j].message.timestamp

\* the candidate at place i of the order of consideration was added
IsAdded(i) ==
  \E j \in 1..Len(lastCall.result.messages) :
    /\ lastCall.result.messages[j].kind = "regular"
    /\ lastCall.result.messages[j].id = lastCall.sortedRegular[i].message.id

\* how many candidates before place i were added
AddedBefore(i) == Cardinality({k \in 1..(i - 1) : IsAdded(k)})

CandidateTokens(i) == countMessageTokens(lastCall.sortedRegular[i].message.content)

\* the cost of the added candidates from place i on
RECURSIVE AddedTokensFrom(_)
AddedTokensFrom(i) ==
  IF i > Len(lastCall.sortedRegular) THEN 0
  ELSE (IF IsAdded(i) THEN CandidateTokens(i) ELSE 0) + AddedTokensFrom(i + 1)

\* the token count when the scan came to place i
TokensBefore(i) == lastCall.result.tokenCount - AddedTokensFrom(i)

\* the packing rule with the scan ending at the first candidate left out
\* after `enough` candidates were added: up to that candidate each one is
\* added exactly when it fits what is left of the budget, after it none is
PackedBy(enough) ==
  LET stops == {i \in 1..Len(lastCall.sortedRegular) :
                  ~IsAdded(i) /\ AddedBefore(i) >= enough}
  IN \A i \in 1..Len(lastCall.sortedRegular) :
       IF \A k \in stops : i <= k
       THEN IsAdded(i) <=> TokensBefore(i) + CandidateTokens(i) <= lastCall.maxTokens
       ELSE ~IsAdded(i)

Scored == lastCall.op = "calculateScore"

\* the weights of the rules that match the message, and 0.8 when a custom
\* pattern matches it
MatchingWeights(ai, message, index) ==
  {ai.rules[i].weight :
     i \in {k \in 1..Len(ai.rules) : RuleOutcome(ai.rules[k], message, index) = "true"}}
  \cup (IF \E name \in DOMAIN ai.customPatterns :
             PatternTest(ai.customPatterns[name], message.content)
        THEN {80} ELSE {})

SetMax(S) == CHOOSE x \in S : \A y \in S : y <= x

\* C12: calculateScore(message, index) returns message.importance when it is
\* defined, otherwise 1.0 when the message is pinned, otherwise min(1.0,
\* max(0.4, the weights of the matching rules)), the weights being numbers; so
\* without explicit importance the result lies in [0.4, 1.0], and registering
\* a further rule or pattern lowers the score of no message.
C12_ScoreIsCappedMaximum ==
  /\ Scored =>
       /\ lastCall.result =
            IF lastCall.message.importance # NoImportance
            THEN lastCall.message.importance
            ELSE IF lastCall.message.pinned THEN 100
            ELSE Min(100, SetMax({40} \cup MatchingWeights(autoImportance, lastCall.message,
                                                            lastCall.index)))
       /\ lastCall.message.importance = NoImportance =>
            (40 <= lastCall.result /\ lastCall.result <= 100)
  /\ (lastCall.op \in {"addRule", "addPattern"} /\ lastCall.fresh) =>
       \A input \in ScoreInputs :
         calculateScore(autoImportance, input[1], input[2])
           >= calculateScore(lastCall.before, input[1], input[2])

\* a message without importance, not pinned, matched by a built-in rule and
\* by two registered ones of other weights, scored the largest of the weights
C12_Witness ==
  /\ Scored
  /\ lastCall.message.importance = NoImportance
  /\ ~lastCall.message.pinned
  /\ Cardinality(MatchingWeights(autoImportance, lastCall.message, lastCall.index)) >= 3
  /\ \E i \in 1..Len(autoImportance.rules) : autoImportance.rules[i].weight < 40
  /\ lastCall.result > 40
  /\ lastCall.result < 100

\* the content matches IMPORTANCE_PATTERNS.BUDGET
MatchesBudget(content) == "BUDGET" \in ContentInfo(content).patterns

\* C13: a message matching the budget pattern that SmartContextWeaver.add
\* stores without explicit pinning has importance >= 0.85, whatever its
\* length, and getContext ranks it with a score >= 0.85.
C13_BudgetStoredImportant ==
  /\ (SmartAdded /\ lastCall.pinnedOption # "true") =>
       \A i \in 1..Len(lastCall.stored) :
         (lastCall.stored[i].id = lastCall.id /\ MatchesBudget(lastCall.stored[i].content))
           => lastCall.stored[i].importance >= 85
  /\ Built =>
       \A i \in 1..Len(lastCall.sortedRegular) :
         MatchesBudget(lastCall.sortedRegular[i].message.content)
           => lastCall.sortedRegular[i].score >= 85

\* the AutoImportance without the rules whose match function throws on the
\* message
WithoutThrowing(ai, message, index) ==
  [ai EXCEPT !.rules =
     SelectIdx(@, LAMBDA rule : RuleOutcome(rule, message, index) # "throws")]

\* C14: a registered rule whose match function throws is skipped:
\* calculateScore returns what it returns without that rule, the maximum over
\* the 0.4 baseline and the weights of the other matching rules.
C14_ThrowingRuleSkipped ==
  Scored =>
    /\ lastCall.result =
         calculateScore(WithoutThrowing(autoImportance, lastCall.message, lastCall.index),
                        lastCall.message, lastCall.index)
    /\ (lastCall.message.importance = NoImportance /\ ~lastCall.message.pinned) =>
         lastCall.result =
           Min(100, SetMax({40} \cup MatchingWeights(
                      WithoutThrowing(autoImportance, lastCall.message, lastCall.index),
                      lastCall.message, lastCall.index)))

\* a message scored under the weight of a registered rule whose match function
\* threw on it, by the weight of another rule that matched
C14_Witness ==
  /\ Scored
  /\ lastCall.message.importance = NoImportance
  /\ ~lastCall.message.pinned
  /\ \E i \in 1..Len(autoImportance.rules) :
       /\ RuleOutcome(autoImportance.rules[i], lastCall.message, lastCall.index) = "throws"
       /\ autoImportance.rules[i].weight > lastCall.result
  /\ lastCall.result > 40

\* the last call was remove(m.id), made right after add(m)
AddRemoved ==
  /\ lastCall.op = "remove"
  /\ lastCall.prior.op = "add"
  /\ lastCall.prior.message.id = lastCall.id

\* the results of a search, other than message m
ResultsBut(results, m) == SelectIdx(results, LAMBDA r : r.message # m)

\* the same messages in the same order, with scores no further apart than
\* 0.005
SameResults(r1, r2) ==
  /\ Len(r1) = Len(r2)
  /\ \A i \in 1..Len(r1) :
       /\ r1[i].message = r2[i].message
       /\ Abs(r1[i].score - r2[i].score) <= 5

\* C15: for any index and any message m, add(m) followed by remove(m.id)
\* restores every document-frequency count and the document total, and a
\* search made next returns for the other content the results and scores it
\* would have returned without the add and the remove.
C15_AddRemoveRestores ==
  AddRemoved =>
    LET before == lastCall.prior.before
        m == lastCall.prior.message
    IN /\ semanticIndex.documentFrequency = before.documentFrequency
       /\ semanticIndex.totalDocuments = before.totalDocuments
       /\ \A query \in IndexQueries :
            SameResults(
              ResultsBut(IndexSearchResults(semanticIndex, QueryTerms(query), 5, 100), m),
              ResultsBut(IndexSearchResults(before, QueryTerms(query), 5, 100), m))

\* the last call was a search
Searched == lastCall.op = "search"

\* the messages an index holds, in the order of its Map
IndexedMessages(ix) == [i \in 1..Len(ix.order) |-> ix.documents[ix.order[i]].message]

\* an index built from scratch over the documents of ix and recomputed
Recomputed(ix) == recalculateIDF(IndexAddAll(NewSemanticIndex, IndexedMessages(ix)))

\* C16: the scores search serves depend only on the documents indexed when it
\* is called: after any add, remove and search calls every stored weight is
\* the term's frequency times the IDF of the current corpus, as if the index
\* had been recomputed from scratch.
C16_ServedAsIfRecomputed ==
  Searched =>
    /\ \A d \in DOMAIN semanticIndex.documents :
         semanticIndex.documents[d].terms = Recomputed(semanticIndex).documents[d].terms
    /\ SameResults(lastCall.results,
                   IndexSearchResults(Recomputed(semanticIndex),
                                      QueryTerms(lastCall.query), 5, 100))

\* C17: every add and every successful remove sets the dirty flag, and search
\* recomputes all the stored vectors before it scores whenever the flag is
\* set; so when search scores, the flag is clear and every stored magnitude
\* was computed after the last add or remove.
C17_ScoresOnRecomputedVectors ==
  /\ lastCall.op = "add" => semanticIndex.dirty
  /\ (lastCall.op = "remove" /\ lastCall.result) => semanticIndex.dirty
  /\ Searched =>
       /\ ~semanticIndex.dirty
       /\ lastCall.before.dirty => semanticIndex = recalculateIDF(lastCall.before)
       /\ \A d \in DOMAIN semanticIndex.documents :
            /\ d \in DOMAIN stamps.computed
            /\ stamps.computed[d] = stamps.mutations

\* a search over two documents made right after an add, that found something
C17_Witness ==
  /\ Searched
  /\ lastCall.prior.op = "add"
  /\ lastCall.before.dirty
  /\ Cardinality(DOMAIN semanticIndex.documents) >= 2
  /\ lastCall.results # <<>>
  /\ \A d \in DOMAIN semanticIndex.documents : semanticIndex.documents[d].magnitude > 0

\* C18: findRelevant(query, messages, topK) leaves the index it is called on
\* as it was, documents, document frequencies, total and dirty flag, and what
\* it returns depends on the query and the messages alone.
C18_FindRelevantLeavesIndex ==
  lastCall.op = "findRelevant" =>
    /\ semanticIndex.documents = lastCall.before.documents
    /\ semanticIndex.documentFrequency = lastCall.before.documentFrequency
    /\ semanticIndex.totalDocuments = lastCall.before.totalDocuments
    /\ semanticIndex.dirty = lastCall.before.dirty
    /\ semanticIndex.order = lastCall.before.order
    /\ lastCall.result =
         findRelevantOn(NewSemanticIndex, QueryTerms(lastCall.query),
                        lastCall.messages, 10).messages

\* findRelevant found a message while the index it was called on held other
\* documents and was dirty
C18_Witness ==
  /\ lastCall.op = "findRelevant"
  /\ lastCall.result # <<>>
  /\ lastCall.before.dirty
  /\ DOMAIN lastCall.before.documents # {}
  /\ \E i \in 1..Len(lastCall.messages) :
       lastCall.messages[i].id \notin DOMAIN lastCall.before.documents

\* the user and assistant messages of a list, in its order
Dialogue(messages) ==
  SelectIdx(messages, LAMBDA m : m.role \in {"user", "assistant"})

\* C19: pairsToMessages(buildPairs(messages)) contains every user and
\* assistant message of the input exactly once, and these messages are in the
\* order they have in the input.
C19_PairsRestoreDialogue ==
  lastCall.op = "pairsToMessages" =>
    Dialogue(lastCall.result) = Dialogue(lastCall.messages)

\* a list restored from an answered pair, an unanswered one and a system
\* message that stood between a question and its answer
C19_Witness ==
  /\ lastCall.op = "pairsToMessages"
  /\ Len(Dialogue(lastCall.messages)) >= 3
  /\ \E i \in 1..Len(lastCall.pairs) : lastCall.pairs[i].assistantMessage # NoMessage
  /\ \E i \in 1..Len(lastCall.pairs) :
       /\ lastCall.pairs[i].userMessage.role = "user"
       /\ lastCall.pairs[i].assistantMessage = NoMessage
  /\ \E i \in 1..(Len(lastCall.messages) - 2) :
       /\ lastCall.messages[i].role = "user"
       /\ lastCall.messages[i + 1].role = "system"
       /\ lastCall.messages[i + 2].role = "assistant"

\* the places after place i that hold a user or an assistant message
LaterDialogue(messages, i) ==
  {j \in (i + 1)..Len(messages) : messages[j].role \in {"user", "assistant"}}

\* the pairs whose first message is message m
PairsOf(pairs, m) == SelectIdx(pairs, LAMBDA pair : pair.userMessage = m)

\* C20: in buildPairs a user message opens a pair that the next assistant
\* message closes; a user message that arrives first, or the end of the list,
\* closes it unanswered; every system message is a pair of its own, of
\* importance 1.0, and is merged into no other pair.
C20_PairsFollowScan ==
  lastCall.op = "buildPairs" =>
    \A i \in 1..Len(lastCall.messages) :
      LET m == lastCall.messages[i]
          later == LaterDialogue(lastCall.messages, i)
          first == CHOOSE j \in later : \A k \in later : j <= k
          own == PairsOf(lastCall.pairs, m)
      IN /\ m.role = "user" =>
              /\ Len(own) = 1
              /\ own[1].assistantMessage =
                   IF later # {} /\ lastCall.messages[first].role = "assistant"
                   THEN lastCall.messages[first] ELSE NoMessage
         /\ m.role = "system" =>
              /\ Len(own) = 1
              /\ own[1].assistantMessage = NoMessage
              /\ own[1].importance = 100
              /\ \A k \in 1..Len(lastCall.pairs) : lastCall.pairs[k].assistantMessage # m

\* a question left unanswered by the question after it, which is answered
\* past a system message, and a question that ends the list
C20_Witness ==
  /\ lastCall.op = "buildPairs"
  /\ Len(lastCall.messages) = 4
  /\ lastCall.messages[1].role = "user"
  /\ lastCall.messages[2].role = "user"
  /\ lastCall.messages[3].role = "system"
  /\ lastCall.messages[4].role = "assistant"
  /\ Len(lastCall.pairs) = 3
  /\ \E k \in 1..3 : /\ lastCall.pairs[k].userMessage = lastCall.messages[2]
                      /\ lastCall.pairs[k].assistantMessage = lastCall.messages[4]

\* the pairs after place j that list the pair at place j among the pairs they
\* refer to
ListedBy(pairs, j) ==
  {i \in (j + 1)..Len(pairs) :
     \E k \in 1..Len(pairs[i].referencedPairIds) :
       pairs[i].referencedPairIds[k] = pairs[j].id}

\* the referring pairs after place j for which the pair at place j is the
\* nearest earlier pair, at most ten places back, whose reply holds a list
ResolvedTo(pairs, j) ==
  {i \in (j + 1)..Len(pairs) :
     /\ pairs[i].hasReference
     /\ j >= i - 10
     /\ HasList(pairs[j])
     /\ \A k \in (j + 1)..(i - 1) : ~HasList(pairs[k])}

\* C21 as stated: after buildPairs the importance of a pair is its base
\* importance plus 0.2 for every later pair that lists it in
\* referencedPairIds, capped at 1.0, and lies in [0, 1].
C21_BoostPerListingPair ==
  lastCall.op = "buildPairs" =>
    \A j \in 1..Len(lastCall.pairs) :
      /\ lastCall.pairs[j].importance =
           Min(createdPairs(lastCall.messages)[j].importance
                 + 20 * Cardinality(ListedBy(lastCall.pairs, j)), 100)
      /\ lastCall.pairs[j].importance \in 0..100

\* C21: after buildPairs the importance of a pair is its base importance
\* plus 0.2 for every later referring pair for which it is the nearest
\* earlier pair (at most ten back) whose reply holds a list, capped at 1.0,
\* and lies in [0, 1]; a pair listed for its topic alone gets no boost.
C21_BoostPerResolvedPair ==
  lastCall.op = "buildPairs" =>
    \A j \in 1..Len(lastCall.pairs) :
      /\ lastCall.pairs[j].importance =
           Min(createdPairs(lastCall.messages)[j].importance
                 + 20 * Cardinality(ResolvedTo(lastCall.pairs, j)), 100)
      /\ lastCall.pairs[j].importance \in 0..100
      /\ ResolvedTo(lastCall.pairs, j) \subseteq ListedBy(lastCall.pairs, j)

\* a pair with a list that a later pair refers to and that is boosted, in a
\* conversation where another pair is listed for its topic
C21_Witness ==
  /\ lastCall.op = "buildPairs"
  /\ \E j \in 1..Len(lastCall.pairs) :
       /\ ResolvedTo(lastCall.pairs, j) # {}
       /\ lastCall.pairs[j].importance
            = createdPairs(lastCall.messages)[j].importance + 20
  /\ \E j \in 1..Len(lastCall.pairs) :
       ListedBy(lastCall.pairs, j) # {} /\ ResolvedTo(lastCall.pairs, j) = {}

\* the pairs of a list whose first message is a system message
SystemPairsOf(pairs) == SelectIdx(pairs, LAMBDA p : p.userMessage.role = "system")

\* the pairs of a list whose first message is not a system message
NonSystemPairsOf(pairs) == SelectIdx(pairs, LAMBDA p : p.userMessage.role # "system")

\* the pairs of a list, as a set
PairSet(pairs) == {pairs[k] : k \in 1..Len(pairs)}

\* the last n pairs of a list
LastPairs(pairs, n) ==
  {pairs[k] : k \in {k \in 1..Len(pairs) : k > Len(pairs) - n}}

\* C22: selectPairs returns every system pair and the last minRecentPairs
\* non-system pairs of its input, for every maxTokens, maxPairs and
\* currentQuery.
C22_SystemAndRecentKept ==
  lastCall.op = "selectPairs" =>
    /\ PairSet(SystemPairsOf(lastCall.pairs)) \subseteq PairSet(lastCall.result)
    /\ LastPairs(NonSystemPairsOf(lastCall.pairs), lastCall.options.minRecentPairs)
         \subseteq PairSet(lastCall.result)

\* the messages of a list, as a set
MessageSet(messages) == {messages[k] : k \in 1..Len(messages)}

\* the pairs of a list that pair a user message with a reply
Answered(pairs) == {p \in PairSet(pairs) : p.assistantMessage # NoMessage}

\* C23: the messages ConversationPairStrategy.apply returns contain an
\* assistant reply if and only if they contain the user message it was
\* paired with, for every message list, budget and query.
C23_PairsNeverSplit ==
  lastCall.op = "apply" =>
    \A p \in Answered(buildPairs(lastCall.messages)) :
      (p.assistantMessage \in MessageSet(lastCall.result))
        <=> (p.userMessage \in MessageSet(lastCall.result))

\* a call that kept a question with its answer and dropped another question
\* with its answer
C23_Witness ==
  /\ lastCall.op = "apply"
  /\ \E p, q \in Answered(buildPairs(lastCall.messages)) :
       /\ p.userMessage \in MessageSet(lastCall.result)
       /\ p.assistantMessage \in MessageSet(lastCall.result)
       /\ q.userMessage \notin MessageSet(lastCall.result)
       /\ q.assistantMessage \notin MessageSet(lastCall.result)

\* the keys a call removed from the cache
Removed == DOMAIN lastCall.before.node \ DOMAIN tokenCache.node

Overdue(n, time) == n.ttl > 0 /\ time - n.timestamp > n.ttl

\* the keys whose entries were overdue when the last call was made
OverdueKeys ==
  {k \in DOMAIN lastCall.before.node : Overdue(lastCall.before.node[k], lastCall.time)}

\* whether the last call had to make room for a new key
MadeRoom ==
  /\ lastCall.op \in {"set", "getOrCompute"}
  /\ lastCall.key \notin DOMAIN lastCall.before.node
  /\ Len(lastCall.before.keys) >= lastCall.before.capacity

C25_WitnessEvicted ==
  /\ MadeRoom
  /\ Head(lastCall.uses) \in OverdueKeys
  /\ Head(lastCall.uses) \notin DOMAIN tokenCache.node

\* whether the key of the last call held a live entry when the call was made
WasLive ==
  /\ lastCall.key \in DOMAIN lastCall.before.node
  /\ ~Overdue(lastCall.before.node[lastCall.key], lastCall.time)

C26_WitnessExpired ==
  /\ lastCall.op = "getOrCompute"
  /\ lastCall.key \in OverdueKeys
  /\ lastCall.computed
  /\ lastCall.result = lastCall.value

\* what getContext builds for the session of the last call when the token
\* cache holds nothing: under SessionsSpec, what it returns for "s1" when
\* session "s2" has never been used
BuiltAlone ==
  LET allMessages == getMessages(storage, lastCall.sessionId)
  IN buildContext(scoreMessages(allMessages), getSummary(storage, lastCall.sessionId),
                  lastCall.maxTokens, lastCall.sortedRegular,
                  NewLRUCache(TokenCacheCapacity, TokenCacheTTL), clock).result

\* C27: what getContext returns for session "s1", its messages and its
\* tokenCount, is what it returns when no other session exists or has added
\* messages.
C27_SessionsDoNotInterfere ==
  (lastCall.op = "getContext" /\ lastCall.sessionId = "s1" /\ ~lastCall.cached) =>
    /\ lastCall.result.messages = BuiltAlone.messages
    /\ lastCall.result.tokenCount = BuiltAlone.tokenCount

\* C28: for a BloomFilter, mightContain(x) returns true for every x added
\* since the filter was made or last cleared, whatever was added after it;
\* add never clears a bit, and no call changes the size or the hash count.
C28_NoFalseNegatives ==
  (~IsCounting(sessionFilter) /\ lastCall.op # "new") =>
    /\ \A x \in FilterItems :
         stamps.adds[x] > 0 => BloomMightContain(sessionFilter, x)
    /\ (lastCall.op = "mightContain" /\ stamps.adds[lastCall.item] > 0) =>
         lastCall.result
    /\ lastCall.op = "add" => lastCall.before.bits \subseteq sessionFilter.bits
    /\ sessionFilter.size = lastCall.before.size
    /\ sessionFilter.hashCount = lastCall.before.hashCount

\* a filter asked for an item that was added before two other items were,
\* one of which set a bit in a byte that already held one
C28_Witness ==
  /\ ~IsCounting(sessionFilter)
  /\ lastCall.op = "mightContain"
  /\ lastCall.result
  /\ stamps.adds[lastCall.item] > 0
  /\ \A x \in FilterItems : stamps.adds[x] > 0
  /\ \E i, j \in sessionFilter.bits : i # j /\ i \div 8 = j \div 8

\* C29: for a CountingBloomFilter, mightContain(x) returns true whenever x
\* has been added more often than it has been removed since the last clear,
\* whatever else was added or removed in between.
C29_CountingNoFalseNegatives ==
  IsCounting(sessionFilter) =>
    /\ \A x \in FilterItems :
         stamps.adds[x] > stamps.removes[x] => CountingMightContain(sessionFilter, x)
    /\ (/\ lastCall.op = "mightContain"
        /\ stamps.adds[lastCall.item] > stamps.removes[lastCall.item]) =>
         lastCall.result

\* a call over a failing operation
Failed == "failing" \in DOMAIN lastCall

\* C30: when a storage operation or the summarizer rejects during add,
\* getContext, pin, unpin, clear or summarize, the call rejects with that
\* failure; it does not resolve
C30_FailuresPropagate ==
  Failed =>
    /\ lastCall.outcome.status = "rejected"
    /\ lastCall.outcome.error = lastCall.failing

\* an add whose summarizer rejects after the message was stored: the call
\* rejects with the summarizer's failure
C30_Witness ==
  /\ Failed
  /\ lastCall.op = "add"
  /\ lastCall.failing = "summarizer"
  /\ lastCall.outcome = [status |-> "rejected", error |-> "summarizer"]
  /\ summarizerCalls = 1

\* C31: with no summarizer configured, summarize returns null and leaves the
\* stored messages and the stored summary as they were, and add leaves them
\* as they were but for the added message, however large the history is
C31_NoSummarizerNoSummary ==
  [][~config.summarizer =>
       /\ lastCall'.op = "summarize" =>
            /\ lastCall'.result = NoSummary
            /\ storage' = storage
       /\ lastCall'.op = "add" =>
            /\ storage' = addMessage(storage, lastCall'.sessionId,
                                     lastCall'.stored[Len(lastCall'.stored)])
            /\ summarizerCalls' = summarizerCalls]_vars

\* a summarize was called on a history over the summarize threshold and
\* longer than recentMessageCount, and then an add: the session holds all
\* its messages and no summary
C31_Witness ==
  /\ ~config.summarizer
  /\ lastCall.op = "add"
  /\ lastCall.sessionId = "s1"
  /\ left.summarize < MaxSummarizes
  /\ Len(getMessages(storage, "s1")) > config.recentMessageCount
  /\ estimatedTokens(getMessages(storage, "s1")) >= config.summarizeThreshold
  /\ getSummary(storage, "s1") = NoSummary

\* the pairs of a selectPairs call that are neither system nor recent nor
\* referenced by the query
OlderUnreferenced(call) ==
  LET olderPairs == SliceDropLast(NonSystemPairsOf(call.pairs), call.options.minRecentPairs)
      referenced == call.options.currentQuery # ""
                    /\ PairInfo(call.options.currentQuery).reference
  IN {p \in PairSet(olderPairs) : ~(referenced /\ HasList(p))}

\* the token cost of the pairs of a result that belong to a set
CostIn(result, set) == countPairTokens(SelectIdx(result, LAMBDA p : p \in set))

\* the budget of a selectPairs call that remains after the system pairs and
\* the query-referenced pairs of the result
RemainingBudget(call) ==
  call.options.maxTokens
    - CostIn(call.result, PairSet(call.pairs) \ (OlderUnreferenced(call)
               \cup LastPairs(NonSystemPairsOf(call.pairs),
                              IF call.options.minRecentPairs = 0 THEN Len(call.pairs)
                              ELSE call.options.minRecentPairs)))

\* C32: the older pairs selectPairs admits that are neither system, recent
\* nor referenced cost together at most 60% of the budget that remains after
\* the system and the referenced pairs, and a pair is passed over only for
\* less important pairs that cost less
C32_OlderWithinShare ==
  lastCall.op = "selectPairs" =>
    LET admitted == OlderUnreferenced(lastCall) \cap PairSet(lastCall.result)
    IN /\ admitted # {} =>
            10 * CostIn(lastCall.result, admitted) <= 6 * RemainingBudget(lastCall)
       /\ \A a \in admitted : \A q \in OlderUnreferenced(lastCall) \ admitted :
            q.importance > a.importance
              => countPairTokens(<<q>>) > countPairTokens(<<a>>)

\* a call whose budget was partly taken by a system pair and that admitted
\* an older pair
C32_Witness ==
  /\ lastCall.op = "selectPairs"
  /\ RemainingBudget(lastCall) < lastCall.options.maxTokens
  /\ lastCall.options.maxTokens < 100
  /\ OlderUnreferenced(lastCall) \cap PairSet(lastCall.result) # {}

\* the last call was an add or a clear of the session, or a pin or an unpin
\* of one of its stored messages
Mutated(sessionId) ==
  /\ weaver = "smart"
  /\ lastCall.op \in {"add", "pin", "unpin", "clear"}
  /\ lastCall.sessionId = sessionId
  /\ lastCall.op \in {"pin", "unpin"} =>
       \E i \in 1..Len(getMessages(storage, sessionId)) :
         getMessages(storage, sessionId)[i].id = lastCall.id

\* C33: a getContext without currentQuery that follows an add, pin, unpin or
\* clear of its session is not answered with a context cached before that
\* call, whatever its maxTokens
C33_NoStaleContext ==
  [][(lastCall'.op = "getContext" /\ Mutated(lastCall'.sessionId))
       => ~lastCall'.cached]_vars

\* the ids of the messages the digests of a summary stand for
DigestedIds(summary) ==
  UNION {{summary[k].of[i] : i \in 1..Len(summary[k].of)} : k \in 1..Len(summary)}

\* the ids of the messages a session holds
StoredIds(st, sessionId) ==
  {getMessages(st, sessionId)[i].id : i \in 1..Len(getMessages(st, sessionId))}

\* both add calls have returned, and both called the summarizer
BothSummarized ==
  /\ \A p \in Calls : stamps[p].pc = "done" /\ stamps[p].toSummarize # <<>>

\* C34: when two overlapping add calls on a session have both summarized,
\* every message that was deleted from the session is covered by a digest
\* of the stored summary
C34_NoDigestLost ==
  BothSummarized =>
    stamps.began \ StoredIds(storage, "s1") \subseteq DigestedIds(getSummary(storage, "s1"))

\* C35: in calls that do not overlap, also when a storage call fails during
\* a summarization, the messages a call other than clear removes from a
\* session are covered by a digest of the summary that is stored when they
\* are removed
C35_SummaryBeforeDelete ==
  [][lastCall'.op # "clear" =>
       \A sessionId \in SessionIds :
         StoredIds(storage, sessionId) \ StoredIds(storage', sessionId)
           \subseteq DigestedIds(getSummary(storage', sessionId))]_vars

\* a summarization whose first deleteMessage rejected: the summary is
\* stored and the messages it stands for are all still in the session
C35_Witness ==
  /\ Failed
  /\ lastCall.failing = "deleteMessage"
  /\ getSummary(storage, lastCall.sessionId) # NoSummary
  /\ DigestedIds(getSummary(storage, lastCall.sessionId)) \ {ExistingId} # {}
  /\ DigestedIds(getSummary(storage, lastCall.sessionId)) \ {ExistingId}
       \subseteq StoredIds(storage, lastCall.sessionId)

\* C36: when two overlapping getOrComputeAsync calls on one key have
\* returned, compute was invoked at most once for the key and both calls
\* returned the same value
C36_ComputesOnce ==
  (/\ stamps.a.pc = "returned" /\ stamps.b.pc = "returned"
   /\ stamps.a.key = stamps.b.key)
    => /\ stamps.computes[stamps.a.key] <= 1
       /\ stamps.a.result = stamps.b.result

\* the stored documents of an index that contain a term
DocumentsWith(ix, term) ==
  {d \in DOMAIN ix.documents : term \in DOMAIN ix.documents[d].terms}

\* C37: after any add and remove calls on a SemanticIndex, also an add of an
\* id that is already indexed, getStats().documents is the number of stored
\* documents and the document frequency of every term is the number of
\* stored documents that contain it, terms in no document being absent
C37_StatsMatchDocuments ==
  /\ semanticIndex.totalDocuments = Cardinality(DOMAIN semanticIndex.documents)
  /\ \A t \in DOMAIN semanticIndex.documentFrequency :
       /\ semanticIndex.documentFrequency[t] = Cardinality(DocumentsWith(semanticIndex, t))
       /\ semanticIndex.documentFrequency[t] > 0
  /\ \A d \in DOMAIN semanticIndex.documents :
       DOMAIN semanticIndex.documents[d].terms \subseteq DOMAIN semanticIndex.documentFrequency

\* the message an add call stored
Added(call) == call.stored[Len(call.stored)]

\* C38 as stated: add stores a message as pinned exactly when options.pinned
\* is true, or options.pinned is undefined and quickImportanceCheck(content)
\* is at least 0.9
C38_PinnedOnAddAsStated ==
  SmartAdded =>
    (Added(lastCall).pinned
       <=> \/ lastCall.pinnedOption = "true"
           \/ /\ lastCall.pinnedOption = "undefined"
              /\ quickImportanceCheck(Added(lastCall).content) >= 90)

\* C38: add stores a message as pinned exactly when options.pinned is true,
\* or options.pinned is undefined, enableAutoImportance is on and
\* quickImportanceCheck(content) is at least 0.9; with pinned: false the
\* message is never pinned
C38_PinnedOnAdd ==
  SmartAdded =>
    (Added(lastCall).pinned
       <=> \/ lastCall.pinnedOption = "true"
           \/ /\ lastCall.pinnedOption = "undefined"
              /\ config.enableAutoImportance
              /\ quickImportanceCheck(Added(lastCall).content) >= 90)

\* an add with pinned: false of a content that scores 0.9: stored unpinned
C38_Witness ==
  /\ SmartAdded
  /\ lastCall.pinnedOption = "false"
  /\ config.enableAutoImportance
  /\ quickImportanceCheck(Added(lastCall).content) >= 90
  /\ ~Added(lastCall).pinned

\* the messages of session s1, pinned or not
StoredNow == getMessages(storage, "s1")

\* a context built (not read from the cache) with the default threshold 0.3
BuiltByDefault ==
  /\ weaver = "smart"
  /\ lastCall.op = "getContext"
  /\ ~lastCall.cached
  /\ lastCall.importanceThreshold = 30

\* C39: every message stored through SmartContextWeaver.add keeps an
\* importance of at least 0.4 (pin and unpin never lower it), so the
\* threshold step of a getContext with the default threshold 0.3 keeps every
\* unpinned message: only the token budget leaves one out
C39_ThresholdKeepsAll ==
  /\ \A i \in 1..Len(StoredNow) : StoredNow[i].importance >= 40
  /\ BuiltByDefault =>
       { lastCall.sortedRegular[i].message.id : i \in 1..Len(lastCall.sortedRegular) }
         = { StoredNow[i].id : i \in { n \in 1..Len(StoredNow) : ~StoredNow[n].pinned } }

\* a context built over an unpinned message of importance 0.4 and a message
\* pinned once and unpinned again
C39_Witness ==
  /\ BuiltByDefault
  /\ \E i \in 1..Len(StoredNow) : ~StoredNow[i].pinned /\ StoredNow[i].importance = 40
  /\ Len(lastCall.sortedRegular) >= 1

\* the nodes met from node n on by following next, at most fuel of them
RECURSIVE FollowNext(_, _, _)
FollowNext(c, n, fuel) ==
  IF n = 0 \/ fuel = 0 THEN <<>>
  ELSE <<n>> \o FollowNext(c, c.nodes[n].next, fuel - 1)

\* the recency list of the cache of ListSpec, from head on
Walk == FollowNext(tokenCache, tokenCache.head, Len(tokenCache.nodes) + 1)

\* the list of keys and the pointers describe one list
ListAgreesWithKeys ==
  /\ contextCache.keys = [i \in 1..Len(Walk) |-> tokenCache.nodes[Walk[i]].key]
  /\ DOMAIN contextCache.node = DOMAIN tokenCache.cache
  /\ \A k \in DOMAIN tokenCache.cache :
       LET n == tokenCache.nodes[tokenCache.cache[k]]
       IN contextCache.node[k]
            = [value |-> n.value, timestamp |-> n.timestamp, ttl |-> n.ttl]

\* C40: after any get, set, delete, has, getOrCompute and clear calls on an
\* LRUCache of capacity 1 or more, size is at most capacity; following next
\* from head visits the node of every key of the map exactly once and ends
\* at tail; prev mirrors next; head is the entry used last and tail the entry
\* whose last use is the oldest
C40_ListAgreesWithMap ==
  LET c == tokenCache
      size == Cardinality(DOMAIN c.cache)
  IN /\ size <= c.capacity
     /\ Len(Walk) = size
     /\ { Walk[i] : i \in 1..Len(Walk) } = { c.cache[k] : k \in DOMAIN c.cache }
     /\ \A k \in DOMAIN c.cache : c.nodes[c.cache[k]].key = k
     /\ c.tail = (IF Walk = <<>> THEN 0 ELSE Walk[Len(Walk)])
     /\ c.head # 0 => c.nodes[c.head].prev = 0
     /\ \A i \in 1..(Len(Walk) - 1) : c.nodes[Walk[i + 1]].prev = Walk[i]
     /\ Len(stamps.uses) = size
     /\ size > 0 =>
          /\ c.nodes[c.head].key = stamps.uses[size]
          /\ c.nodes[c.tail].key = stamps.uses[1]

\* a full cache of three entries after an eviction and a move of the middle
\* entry to the front
C40_Witness ==
  /\ Len(Walk) = 3
  /\ Len(tokenCache.nodes) >= 4
  /\ lastCall.op = "get"
  /\ lastCall.before.head # tokenCache.head
  /\ lastCall.before.tail = tokenCache.tail

=============================================================================
